---- MODULE Spec2Model ----
(***************************************************************************)
(* PrintLayout: the Layout data model (layout.rs), the canvas widget's     *)
(* event handling (canvas_widget.rs) and the session's message handler     *)
(* PrintLayout::update (main.rs).                                          *)
(*                                                                         *)
(* Millimetre and pixel quantities are f32 in the source.  They are        *)
(* modelled as exact rationals <<n, d>> (d > 0, lowest terms), so every    *)
(* equality below is the real-number equality that the f32 computation     *)
(* approximates to within rounding.                                        *)
(***************************************************************************)
EXTENDS Integers, Sequences, FiniteSets, TLC

VARIABLES
    layout,                  \* PrintLayout.layout : Layout
    canvas,                  \* PrintLayout.canvas : LayoutCanvas (own Layout copy, zoom)
    drag_mode,               \* PrintLayout.drag_mode : DragMode
    drag_start_pos,          \* PrintLayout.drag_start_pos
    drag_image_initial_pos,  \* PrintLayout.drag_image_initial_pos
    drag_image_initial_size, \* PrintLayout.drag_image_initial_size
    maintain_aspect_ratio,   \* PrintLayout.maintain_aspect_ratio
    is_modified,             \* PrintLayout.is_modified
    next_uuid,               \* number of ids handed out so far by Uuid::new_v4
    moves,                   \* pointer moves applied to a drag so far (bounded by MaxMoves)
    button_down,             \* environment: the left mouse button is held down
    presses,                 \* presses of the left button so far (bounded by MaxPresses)
    injected,                \* messages passed to update directly so far (bounded by MaxInjected)
    call,                    \* history: the direct call made by the last step, if it was one
    samples,                 \* history: first and latest pointer sample of the current drag
    print_status,            \* PrintLayout.print_status : PrintStatus
    selected_printer,        \* PrintLayout.selected_printer : Option<String>
    printers,                \* PrintLayout.printers : Vec<PrinterInfo>
    tasks,                   \* the iced runtime: futures of Task::perform not yet resolved
    log,                     \* history: what each task was started with and what it delivered
    bitmap,                  \* the RgbaImage render_layout_to_image returned last, if any
    zoom,                    \* PrintLayout.zoom
    current_file,            \* PrintLayout.current_file : Option<PathBuf>
    recent_files,            \* PrintLayout.preferences.recent_files, newest first
    disk                     \* the layout files: path -> the Layout stored there, if any

vars == <<layout, canvas, drag_mode, drag_start_pos, drag_image_initial_pos,
          drag_image_initial_size, maintain_aspect_ratio, is_modified,
          next_uuid, moves, button_down, presses, injected, call, samples,
          print_status, selected_printer, printers, tasks, log, bitmap,
          zoom, current_file, recent_files, disk>>

print_vars == <<print_status, selected_printer, printers, tasks, log, bitmap>>

file_vars == <<current_file, recent_files, disk>>

\* what the canvas and image messages leave alone
rest_vars == <<print_vars, file_vars, zoom>>

session_vars == <<drag_mode, drag_start_pos, drag_image_initial_pos,
                  drag_image_initial_size, maintain_aspect_ratio, is_modified>>

drag_vars == <<drag_mode, drag_start_pos, drag_image_initial_pos,
               drag_image_initial_size>>

-----------------------------------------------------------------------------
(* Bounds *)

\* ids handed out in one session (Uuid::new_v4 never repeats, so ids are a counter)
MaxIds == 2
\* pointer moves applied to a drag in one run
MaxMoves == 2
\* presses of the left mouse button in one run
MaxPresses == 1
\* paths in one ImageFilesSelected message
MaxBatch == 2
\* images handed to Layout::add_image when the Layout is driven directly
MaxLayoutImages == 3
\* messages passed to PrintLayout::update directly in one run
MaxInjected == 1
\* print jobs started in one run
MaxJobs == 2
\* messages that change the Layout in one run with printing
MaxEdits == 3

-----------------------------------------------------------------------------
(* Exact rational arithmetic standing in for f32 *)

Abs(n) == IF n < 0 THEN -n ELSE n

RECURSIVE GCD(_, _)
GCD(a, b) == IF b = 0 THEN a ELSE GCD(b, a % b)

Norm(n, d) ==
    LET s == IF d < 0 THEN -1 ELSE 1
        g == GCD(Abs(n), Abs(d))
    IN  <<(s * n) \div g, (s * d) \div g>>

R(n) == <<n, 1>>
RAdd(a, b) == Norm(a[1] * b[2] + b[1] * a[2], a[2] * b[2])
RSub(a, b) == Norm(a[1] * b[2] - b[1] * a[2], a[2] * b[2])
RMul(a, b) == Norm(a[1] * b[1], a[2] * b[2])
RDiv(a, b) == Norm(a[1] * b[2], a[2] * b[1])
RLt(a, b) == a[1] * b[2] < b[1] * a[2]
RLe(a, b) == a[1] * b[2] <= b[1] * a[2]
RMax(a, b) == IF RLt(a, b) THEN b ELSE a
RMin(a, b) == IF RLt(b, a) THEN b ELSE a
RAbs(a) == <<Abs(a[1]), a[2]>>
\* `a as i32`: truncation toward zero
RTrunc(a) == IF a[1] >= 0 THEN a[1] \div a[2] ELSE -((-a[1]) \div a[2])
\* Rust's a % b on f32 for b > 0: the remainder takes the sign of a; both
\* brought to the denominator a[2] * b[2]
RRem(a, b) ==
    LET n == a[1] * b[2]
        m == b[1] * a[2]
    IN  Norm(IF n >= 0 THEN n % m ELSE -((-n) % m), a[2] * b[2])

-----------------------------------------------------------------------------
(* Values *)

None == <<>>                       \* Option::None
Some(x) == <<x>>                   \* Option::Some(x)
Ids == 1..(MaxIds + 1)             \* every id a call can name; the last is never handed out

ZeroPos == <<R(0), R(0)>>          \* (0.0, 0.0)

Corners == {"TopLeft", "TopRight", "BottomLeft", "BottomRight"}
Edges == {"Top", "Bottom", "Left", "Right"}
ResizeHandle == Corners \cup Edges

DragNone == [kind |-> "None", handle |-> "-"]
DragMove == [kind |-> "Move", handle |-> "-"]
DragResize(h) == [kind |-> "Resize", handle |-> h]

\* image files on disk: what image::open returns for each path
\* (pixel dimensions, or an error for a file that does not decode)
Files == {"wide.png", "bad.png"}
Decodes(path) == path # "bad.png"
Dimensions(path) == <<200, 100>>

-----------------------------------------------------------------------------
(* layout.rs: PlacedImage and Layout *)

\* PlacedImage::new(path, w_px, h_px) with the id Uuid::new_v4 returned
PlacedImage_new(id, path, original_width_px, original_height_px) ==
    LET aspect_ratio == RDiv(R(original_height_px), R(original_width_px))
        width_mm == R(100)
        height_mm == RMul(width_mm, aspect_ratio)
    IN  [id |-> id, path |-> path,
         x_mm |-> R(50), y_mm |-> R(50),
         width_mm |-> width_mm, height_mm |-> height_mm,
         rotation_degrees |-> R(0), z_index |-> 0,
         original_width_px |-> original_width_px,
         original_height_px |-> original_height_px,
         locked |-> FALSE, flip_horizontal |-> FALSE, flip_vertical |-> FALSE,
         opacity |-> R(1)]

\* PaperSize::to_dimensions, for the sizes used here
to_dimensions(paper_size) ==
    CASE paper_size = "A4" -> <<R(210), R(297)>>
      [] paper_size = "A5" -> <<R(148), R(210)>>
      [] paper_size = "Letter" -> <<<<2159, 10>>, <<2794, 10>>>>

\* 25.4, the margin of a new page and of a page that stops being borderless
DefaultMargin == <<127, 5>>

\* Page::new(PaperSize::A4), the page of Layout::new()
Page_default ==
    [width_mm |-> to_dimensions("A4")[1], height_mm |-> to_dimensions("A4")[2],
     margin_top_mm |-> DefaultMargin, margin_bottom_mm |-> DefaultMargin,
     margin_left_mm |-> DefaultMargin, margin_right_mm |-> DefaultMargin,
     paper_size |-> "A4", paper_type |-> "Plain", print_quality |-> "Standard",
     color_mode |-> "UseICCProfile", orientation |-> "Portrait",
     borderless |-> FALSE]

Layout_new == [page |-> Page_default, images |-> <<>>, selected_image_id |-> None]

\* LastPrintSettings::default(): no print has succeeded yet
NoPrintSettings ==
    [paper_size |-> None, orientation |-> None, borderless |-> None, margins |-> None]

\* the LastPrintSettings PrintJobCompleted stores after a successful print of `page`
PrintSettingsOf(page) ==
    [paper_size |-> Some(page.paper_size), orientation |-> Some(page.orientation),
     borderless |-> Some(page.borderless),
     margins |-> Some(<<page.margin_top_mm, page.margin_bottom_mm,
                        page.margin_left_mm, page.margin_right_mm>>)]

\* the Layout PrintLayout::new builds: Layout::new() with the fields of the last
\* print settings that are present written over the page's
RestoredLayout(last_print) ==
    LET page == Page_default
        restored ==
            [page EXCEPT
                !.paper_size = IF last_print.paper_size # None
                               THEN last_print.paper_size[1] ELSE @,
                !.orientation = IF last_print.orientation # None
                                THEN last_print.orientation[1] ELSE @,
                !.borderless = IF last_print.borderless # None
                               THEN last_print.borderless[1] ELSE @,
                !.margin_top_mm = IF last_print.margins # None
                                  THEN last_print.margins[1][1] ELSE @,
                !.margin_bottom_mm = IF last_print.margins # None
                                     THEN last_print.margins[1][2] ELSE @,
                !.margin_left_mm = IF last_print.margins # None
                                   THEN last_print.margins[1][3] ELSE @,
                !.margin_right_mm = IF last_print.margins # None
                                    THEN last_print.margins[1][4] ELSE @]
    IN  [Layout_new EXCEPT !.page = restored]

\* self.images.iter().position(|img| img.id == id): 0 when there is none
Position(images, id) ==
    IF \E i \in 1..Len(images) : images[i].id = id
    THEN CHOOSE i \in 1..Len(images) :
            /\ images[i].id = id
            /\ \A j \in 1..(i - 1) : images[j].id # id
    ELSE 0

add_image(l, image) ==
    LET z_index == Len(l.images)
    IN  [l EXCEPT !.images = Append(l.images, [image EXCEPT !.z_index = z_index])]

\* variant: the element is removed and the reindexing loop is left out
RemoveAt_no_reindex(images, index) ==
    [i \in 1..(Len(images) - 1) |-> IF i < index THEN images[i] ELSE images[i + 1]]

\* the vector after images.remove(index) and the reindexing loop
RemoveAt(images, index) ==
    LET rest == [i \in 1..(Len(images) - 1) |->
                    IF i < index THEN images[i] ELSE images[i + 1]]
    IN  [i \in 1..Len(rest) |-> [rest[i] EXCEPT !.z_index = i - 1]]

\* variant: the selection is left alone
remove_image_keeping_selection(l, id) ==
    LET index == Position(l.images, id)
    IN  IF index # 0 THEN [l EXCEPT !.images = RemoveAt(l.images, index)] ELSE l

\* variant: the selection is cleared whichever image is removed
remove_image_clearing_selection(l, id) ==
    LET index == Position(l.images, id)
    IN  IF index # 0
        THEN [l EXCEPT !.images = RemoveAt(l.images, index), !.selected_image_id = None]
        ELSE l

remove_image(l, id) ==
    LET index == Position(l.images, id)
    IN  IF index # 0
        THEN [l EXCEPT !.images = RemoveAt(l.images, index),
                       !.selected_image_id =
                           IF l.selected_image_id = Some(id) THEN None
                           ELSE l.selected_image_id]
        ELSE l

\* Option<&PlacedImage>
get_image(l, id) ==
    LET index == Position(l.images, id)
    IN  IF index # 0 THEN Some(l.images[index]) ELSE None

\* variant: the box of an image turned by 90 or 270 degrees has its sides swapped
contains_point_turned(img, x_mm, y_mm) ==
    LET turned == img.rotation_degrees \in {R(90), R(270)}
        w == IF turned THEN img.height_mm ELSE img.width_mm
        h == IF turned THEN img.width_mm ELSE img.height_mm
    IN  /\ RLe(img.x_mm, x_mm)
        /\ RLe(x_mm, RAdd(img.x_mm, w))
        /\ RLe(img.y_mm, y_mm)
        /\ RLe(y_mm, RAdd(img.y_mm, h))

contains_point(img, x_mm, y_mm) ==
    /\ RLe(img.x_mm, x_mm)
    /\ RLe(x_mm, RAdd(img.x_mm, img.width_mm))
    /\ RLe(img.y_mm, y_mm)
    /\ RLe(y_mm, RAdd(img.y_mm, img.height_mm))

\* variant: the first element of the vector that contains the point
find_image_at_point_lowest(l, x_mm, y_mm) ==
    LET hits == {i \in 1..Len(l.images) : contains_point(l.images[i], x_mm, y_mm)}
    IN  IF hits = {} THEN None
        ELSE Some(l.images[CHOOSE i \in hits : \A j \in hits : i <= j])

\* images.iter().rev().find(..): the last element of the vector that contains the point
find_image_at_point(l, x_mm, y_mm) ==
    LET hits == {i \in 1..Len(l.images) : contains_point(l.images[i], x_mm, y_mm)}
    IN  IF hits = {} THEN None
        ELSE Some(l.images[CHOOSE i \in hits : \A j \in hits : j <= i])

\* an image after the assignments `image.k = fields[k]`
Assign(img, fields) ==
    [k \in DOMAIN img |-> IF k \in DOMAIN fields THEN fields[k] ELSE img[k]]

\* variant: every image of the vector receives the assignments
UpdateImage_every(images, id, fields) ==
    IF Position(images, id) # 0
    THEN [i \in 1..Len(images) |-> Assign(images[i], fields)]
    ELSE images

\* variant: an id that is not found falls back to the first image
UpdateImage_or_first(images, id, fields) ==
    LET index == Position(images, id)
    IN  IF index # 0 THEN [images EXCEPT ![index] = Assign(images[index], fields)]
        ELSE IF images # <<>> THEN [images EXCEPT ![1] = Assign(images[1], fields)]
        ELSE images

\* the vector after `if let Some(image) = get_image_mut(id) { image.k = fields[k]; .. }`
UpdateImage(images, id, fields) ==
    LET index == Position(images, id)
    IN  IF index # 0 THEN [images EXCEPT ![index] = Assign(images[index], fields)]
        ELSE images

-----------------------------------------------------------------------------
(* canvas_widget.rs: LayoutCanvas *)

\* 96.0 / 25.4
PixelsPerMm == RDiv(R(960), R(254))

\* cache is the geometry the iced Cache holds: None when cleared, the frame of
\* the last draw_content otherwise; image_cache maps keys to handles and
\* source_cache holds the paths of the decoded sources
LayoutCanvas_new(l) ==
    [layout |-> l, zoom |-> R(1), cache |-> None, image_cache |-> {},
     source_cache |-> {}]

set_layout_without_clear(c, l) == [c EXCEPT !.layout = l]

set_layout(c, l) == [c EXCEPT !.layout = l, !.cache = None]

\* the fields assigned by a move and by a resize
SetPosition(x, y) == [x_mm |-> x, y_mm |-> y]

SetBounds(x, y, w, h) == [x_mm |-> x, y_mm |-> y, width_mm |-> w, height_mm |-> h]

\* LayoutCanvas::set_zoom: zoom.clamp(0.1, 5.0)
MinZoom == <<1, 10>>
MaxZoom == <<5, 1>>

set_zoom(c, z) == [c EXCEPT !.zoom = RMax(MinZoom, RMin(z, MaxZoom)), !.cache = None]

update_image_position(c, id, x, y) ==
    [c EXCEPT !.layout.images =
                  UpdateImage(c.layout.images, id, SetPosition(x, y)),
              !.cache = None]

update_image_bounds(c, id, x, y, w, h) ==
    [c EXCEPT !.layout.images =
                  UpdateImage(c.layout.images, id, SetBounds(x, y, w, h)),
              !.cache = None]

mm_to_pixels(c, mm) == RMul(RMul(mm, PixelsPerMm), c.zoom)

pixels_to_mm(c, pixels) == RDiv(pixels, RMul(PixelsPerMm, c.zoom))

\* let handle_radius = 8.0
HandleRadius == 8

\* variant: half the radius
NearHandle_narrow(px, py, cx, cy) ==
    /\ RLt(RAbs(RSub(px, cx)), RDiv(R(HandleRadius), R(2)))
    /\ RLt(RAbs(RSub(py, cy)), RDiv(R(HandleRadius), R(2)))

\* (px - cx).abs() < handle_radius && (py - cy).abs() < handle_radius
NearHandle(px, py, cx, cy) ==
    /\ RLt(RAbs(RSub(px, cx)), R(HandleRadius))
    /\ RLt(RAbs(RSub(py, cy)), R(HandleRadius))

\* Option<(String, ResizeHandle)>: corners first, then edges, first match wins
get_resize_handle_at_point(c, px, py) ==
    IF c.layout.selected_image_id = None THEN None
    ELSE
      LET id == c.layout.selected_image_id[1]
          found == get_image(c.layout, id)
      IN  IF found = None THEN None
          ELSE
            LET img == found[1]
                x == mm_to_pixels(c, img.x_mm)
                y == mm_to_pixels(c, img.y_mm)
                width == mm_to_pixels(c, img.width_mm)
                height == mm_to_pixels(c, img.height_mm)
                half_w == RDiv(width, R(2))
                half_h == RDiv(height, R(2))
                handles ==
                    << <<x, y, "TopLeft">>,
                       <<RAdd(x, width), y, "TopRight">>,
                       <<x, RAdd(y, height), "BottomLeft">>,
                       <<RAdd(x, width), RAdd(y, height), "BottomRight">>,
                       <<RAdd(x, half_w), y, "Top">>,
                       <<RAdd(x, half_w), RAdd(y, height), "Bottom">>,
                       <<x, RAdd(y, half_h), "Left">>,
                       <<RAdd(x, width), RAdd(y, half_h), "Right">> >>
                near == {i \in 1..Len(handles) :
                            NearHandle(px, py, handles[i][1], handles[i][2])}
            IN  IF near = {} THEN None
                ELSE Some(<<id, handles[CHOOSE i \in near : \A j \in near : i <= j][3]>>)

\* the canvas element's size in the view: page size in pixels plus 40
CanvasSize(c, l) ==
    <<RAdd(mm_to_pixels(c, l.page.width_mm), R(40)),
      RAdd(mm_to_pixels(c, l.page.height_mm), R(40))>>

\* cursor.position_in(bounds), with the cursor given relative to the canvas origin
position_in(c, l, cursor) ==
    LET size == CanvasSize(c, l)
    IN  IF /\ RLe(R(0), cursor[1]) /\ RLt(cursor[1], size[1])
           /\ RLe(R(0), cursor[2]) /\ RLt(cursor[2], size[2])
        THEN Some(cursor)
        ELSE None

-----------------------------------------------------------------------------
(* main.rs: the resize geometry of PrintLayout::update, MouseMoved, DragMode::Resize *)

\* .max(10.0)
MinSize == 10

\* variant: the locked height is the width multiplied by the ratio
LockedHeight_multiplied(new_w, aspect_ratio) == RMul(new_w, aspect_ratio)

\* new_w / aspect_ratio, the height of a width-driven resize under the lock
LockedHeight(new_w, aspect_ratio) == RDiv(new_w, aspect_ratio)

\* variant: the size follows the handle and the position is left at the anchor
ResizeGeometry_from_origin(handle, init_x, init_y, init_w, init_h, dx, dy, lock) ==
    LET aspect_ratio == RDiv(init_w, init_h)
        new_w == IF handle \in {"BottomRight", "TopRight", "Right"}
                 THEN RMax(RAdd(init_w, dx), R(MinSize))
                 ELSE IF handle \in {"BottomLeft", "TopLeft", "Left"}
                 THEN RMax(RSub(init_w, dx), R(MinSize))
                 ELSE init_w
        new_h == IF lock /\ handle \notin {"Top", "Bottom"}
                 THEN LockedHeight(new_w, aspect_ratio)
                 ELSE IF handle \in {"BottomRight", "BottomLeft", "Bottom"}
                 THEN RMax(RAdd(init_h, dy), R(MinSize))
                 ELSE IF handle \in {"TopRight", "TopLeft", "Top"}
                 THEN RMax(RSub(init_h, dy), R(MinSize))
                 ELSE init_h
    IN  <<init_x, init_y, new_w, new_h>>

\* variant: an edge handle follows the pointer on both axes, as the corners do
ResizeGeometry_both_axes(handle, init_x, init_y, init_w, init_h, dx, dy, lock) ==
    LET new_w == IF handle \in {"BottomLeft", "TopLeft", "Left"}
                 THEN RMax(RSub(init_w, dx), R(MinSize))
                 ELSE RMax(RAdd(init_w, dx), R(MinSize))
        new_h == IF handle \in {"TopRight", "TopLeft", "Top"}
                 THEN RMax(RSub(init_h, dy), R(MinSize))
                 ELSE RMax(RAdd(init_h, dy), R(MinSize))
        new_x == IF handle \in {"BottomLeft", "TopLeft", "Left"}
                 THEN RSub(RAdd(init_x, init_w), new_w)
                 ELSE init_x
        new_y == IF handle \in {"TopRight", "TopLeft", "Top"}
                 THEN RSub(RAdd(init_y, init_h), new_h)
                 ELSE init_y
    IN  <<new_x, new_y, new_w, new_h>>

\* (new_x, new_y, new_w, new_h) for a handle, the drag anchors and the pointer delta
ResizeGeometry(handle, init_x, init_y, init_w, init_h, dx, dy, lock) ==
    LET aspect_ratio == RDiv(init_w, init_h)
        w_grow == RMax(RAdd(init_w, dx), R(MinSize))
        w_shrink == RMax(RSub(init_w, dx), R(MinSize))
        h_grow == RMax(RAdd(init_h, dy), R(MinSize))
        h_shrink == RMax(RSub(init_h, dy), R(MinSize))
        right == RAdd(init_x, init_w)
        bottom == RAdd(init_y, init_h)
    IN  CASE handle = "BottomRight" ->
               LET new_w == w_grow
                   new_h == IF lock THEN LockedHeight(new_w, aspect_ratio) ELSE h_grow
               IN  <<init_x, init_y, new_w, new_h>>
          [] handle = "BottomLeft" ->
               LET new_w == w_shrink
                   new_h == IF lock THEN LockedHeight(new_w, aspect_ratio) ELSE h_grow
               IN  <<RSub(right, new_w), init_y, new_w, new_h>>
          [] handle = "TopRight" ->
               LET new_w == w_grow
                   new_h == IF lock THEN LockedHeight(new_w, aspect_ratio) ELSE h_shrink
               IN  <<init_x, RSub(bottom, new_h), new_w, new_h>>
          [] handle = "TopLeft" ->
               LET new_w == w_shrink
                   new_h == IF lock THEN LockedHeight(new_w, aspect_ratio) ELSE h_shrink
               IN  <<RSub(right, new_w), RSub(bottom, new_h), new_w, new_h>>
          [] handle = "Right" ->
               LET new_w == w_grow
                   new_h == IF lock THEN LockedHeight(new_w, aspect_ratio) ELSE init_h
               IN  <<init_x, init_y, new_w, new_h>>
          [] handle = "Left" ->
               LET new_w == w_shrink
                   new_h == IF lock THEN LockedHeight(new_w, aspect_ratio) ELSE init_h
               IN  <<RSub(right, new_w), init_y, new_w, new_h>>
          [] handle = "Bottom" ->
               LET new_h == h_grow
                   new_w == IF lock THEN RMul(new_h, aspect_ratio) ELSE init_w
               IN  <<init_x, init_y, new_w, new_h>>
          [] handle = "Top" ->
               LET new_h == h_shrink
                   new_w == IF lock THEN RMul(new_h, aspect_ratio) ELSE init_w
               IN  <<init_x, RSub(bottom, new_h), new_w, new_h>>

-----------------------------------------------------------------------------
(* printing.rs: render_layout_to_image.  An RgbaImage is kept as its size and
   the list of overlays made onto the white canvas, oldest first; a pixel is
   read back from that list by get_pixel *)

\* `q as u32` for an f32 q: truncation toward zero, a negative q giving 0 (the
\* sizes here stay far below u32::MAX, where the cast saturates too)
AsU32(q) == IF q[1] < 0 THEN 0 ELSE q[1] \div q[2]

\* `q as u8`
AsU8(q) ==
    IF q[1] < 0 THEN 0
    ELSE IF q[1] \div q[2] > 255 THEN 255
    ELSE q[1] \div q[2]

\* Rust's a % b for b > 0: the remainder takes the sign of a
Rem(a, b) == IF a >= 0 THEN a % b ELSE -((-a) % b)

\* 25.4
MmPerInch == <<254, 10>>

\* variant: the cast rounds to the nearest pixel
MmToPx_rounded(mm, dpi) ==
    AsU32(<<2 * mm[1] * MmPerInch[2] * dpi + mm[2] * MmPerInch[1],
            2 * mm[2] * MmPerInch[1]>>)

\* ((mm / 25.4) * dpi as f32) as u32, the quotient written as one fraction
MmToPx(mm, dpi) == AsU32(<<mm[1] * MmPerInch[2] * dpi, mm[2] * MmPerInch[1]>>)

\* layout.rs, Page::to_pixels(dpi): (width_mm / 25.4 * dpi as f32) as u32 and
\* the same for the height
to_pixels(page, dpi) ==
    <<AsU32(RMul(RDiv(page.width_mm, MmPerInch), R(dpi))),
      AsU32(RMul(RDiv(page.height_mm, MmPerInch), R(dpi)))>>

\* variant: every path yields an image
load_image_for_print_any(path) == TRUE

\* load_image_for_print(path): Ok for a file that opens and decodes
load_image_for_print(path) == Decodes(path)

\* ((rotation_degrees % 360.0) + 360.0) % 360.0, in units of 1 / degrees[2]
rotation_normalized(degrees) ==
    LET turn == 360 * degrees[2]
    IN  <<(Rem(degrees[1], turn) + turn) % turn, degrees[2]>>

\* the quarter turn the rotation chain applies: within 5 degrees of 90, 180 or
\* 270, otherwise none
QuarterTurn(degrees) ==
    LET n == rotation_normalized(degrees)
    IN  IF RLe(R(85), n) /\ RLe(n, R(95)) THEN 90
        ELSE IF RLe(R(175), n) /\ RLe(n, R(185)) THEN 180
        ELSE IF RLe(R(265), n) /\ RLe(n, R(275)) THEN 270
        ELSE 0

\* the alpha of the pixels of an opaque source after `pixel[3] * opacity_factor`
Alpha(opacity) ==
    IF RLt(opacity, R(1))
    THEN AsU8(<<255 * RMax(opacity, R(0))[1], opacity[2]>>)
    ELSE 255

\* what one pass of the loop overlays: the transformed source and its pixel box
Overlay(placed_image, dpi) ==
    [id |-> placed_image.id,
     path |-> placed_image.path,
     turn |-> QuarterTurn(placed_image.rotation_degrees),
     flip_horizontal |-> placed_image.flip_horizontal,
     flip_vertical |-> placed_image.flip_vertical,
     alpha |-> Alpha(placed_image.opacity),
     x_px |-> MmToPx(placed_image.x_mm, dpi),
     y_px |-> MmToPx(placed_image.y_mm, dpi),
     w_px |-> MmToPx(placed_image.width_mm, dpi),
     h_px |-> MmToPx(placed_image.height_mm, dpi)]

\* variant: the loop runs over the images from the last to the first
RECURSIVE RenderImages_reversed(_, _)
RenderImages_reversed(images, dpi) ==
    IF images = <<>> THEN <<>>
    ELSE LET later == RenderImages_reversed(Tail(images), dpi)
             placed_image == Head(images)
         IN  IF load_image_for_print(placed_image.path)
             THEN Append(later, Overlay(placed_image, dpi))
             ELSE later

\* the overlays of `for placed_image in &layout.images`, a source that does
\* not load being skipped with `continue`
RECURSIVE RenderImages(_, _)
RenderImages(images, dpi) ==
    IF images = <<>> THEN <<>>
    ELSE LET earlier == RenderImages(SubSeq(images, 1, Len(images) - 1), dpi)
             placed_image == images[Len(images)]
         IN  IF load_image_for_print(placed_image.path)
             THEN Append(earlier, Overlay(placed_image, dpi))
             ELSE earlier

render_layout_to_image(l, dpi) ==
    [width_px |-> MmToPx(l.page.width_mm, dpi),
     height_px |-> MmToPx(l.page.height_mm, dpi),
     overlays |-> RenderImages(l.images, dpi)]

\* the pixel (x, y) covered by an overlay, inside the bitmap
Covers(img, o, x, y) ==
    /\ 0 <= x /\ x < img.width_px /\ 0 <= y /\ y < img.height_px
    /\ o.x_px <= x /\ x < o.x_px + o.w_px
    /\ o.y_px <= y /\ y < o.y_px + o.h_px

\* the pixel (x, y) of the bitmap after all overlays: the image of the last
\* overlay that covers it with alpha 255, None for the white canvas, and the
\* images of the translucent overlays blended over that one
get_pixel(img, x, y) ==
    LET covering == {i \in 1..Len(img.overlays) :
                        Covers(img, img.overlays[i], x, y) /\ img.overlays[i].alpha > 0}
        solid == {i \in covering : img.overlays[i].alpha = 255}
        base == IF solid = {} THEN 0 ELSE CHOOSE i \in solid : \A j \in solid : j <= i
        above == {i \in covering : i > base}
    IN  [base |-> IF base = 0 THEN None ELSE Some(img.overlays[base].id),
         blended |-> {img.overlays[i].id : i \in above}]

-----------------------------------------------------------------------------
(* canvas_widget.rs: TransformKey, ImageCache, SourceImageCache and the draw *)

\* variant: the key also carries where the image lies
TransformKey_with_position(img) ==
    [path |-> img.path,
     rotation_degrees |-> Rem(RTrunc(img.rotation_degrees), 360),
     flip_horizontal |-> img.flip_horizontal,
     flip_vertical |-> img.flip_vertical,
     opacity_percent |-> AsU8(<<100 * img.opacity[1], img.opacity[2]>>),
     x_mm |-> img.x_mm, y_mm |-> img.y_mm]

\* TransformKey::from_placed_image
TransformKey(img) ==
    [path |-> img.path,
     rotation_degrees |-> Rem(RTrunc(img.rotation_degrees), 360),
     flip_horizontal |-> img.flip_horizontal,
     flip_vertical |-> img.flip_vertical,
     opacity_percent |-> AsU8(<<100 * img.opacity[1], img.opacity[2]>>)]

\* the pixels a handle is made from: the source after rotation, flips and opacity
Handle(img) ==
    [path |-> img.path,
     turn |-> QuarterTurn(img.rotation_degrees),
     flip_horizontal |-> img.flip_horizontal,
     flip_vertical |-> img.flip_vertical,
     alpha |-> Alpha(img.opacity)]

\* SourceImageCache::get_or_load: a path not yet held is inserted when the file
\* exists and opens
get_or_load(source_cache, path) ==
    LET held == IF path \notin source_cache /\ Decodes(path)
                THEN source_cache \cup {path}
                ELSE source_cache
    IN  [source_cache |-> held, found |-> path \in held]

\* ImageCache::get_transformed_handle: the handle, whether the key was held,
\* and the two caches afterwards
get_transformed_handle(image_cache, source_cache, img) ==
    LET key == TransformKey(img)
        held == {e \in image_cache : e.key = key}
        source == get_or_load(source_cache, img.path)
    IN  IF held # {}
        THEN [handle |-> Some((CHOOSE e \in held : TRUE).handle), hit |-> TRUE,
              image_cache |-> image_cache, source_cache |-> source_cache]
        ELSE IF ~source.found
        THEN [handle |-> None, hit |-> FALSE,
              image_cache |-> image_cache, source_cache |-> source.source_cache]
        ELSE [handle |-> Some(Handle(img)), hit |-> FALSE,
              image_cache |-> image_cache \cup {[key |-> key, handle |-> Handle(img)]},
              source_cache |-> source.source_cache]

\* the loop of draw_content over the images: what was drawn for each image, an
\* image with its handle or the placeholder rectangle, and the caches afterwards
RECURSIVE DrawImages(_, _, _)
DrawImages(images, image_cache, source_cache) ==
    IF images = <<>>
    THEN [shown |-> <<>>, image_cache |-> image_cache, source_cache |-> source_cache]
    ELSE LET earlier == DrawImages(SubSeq(images, 1, Len(images) - 1),
                                   image_cache, source_cache)
             img == images[Len(images)]
             got == get_transformed_handle(earlier.image_cache,
                                           earlier.source_cache, img)
         IN  [shown |-> Append(earlier.shown, [id |-> img.id, handle |-> got.handle]),
              image_cache |-> got.image_cache,
              source_cache |-> got.source_cache]

\* Program::draw: the Cache runs draw_content only when it holds no geometry
draw(c) ==
    IF c.cache # None THEN c
    ELSE LET drawn == DrawImages(c.layout.images, c.image_cache, c.source_cache)
         IN  [c EXCEPT !.cache = Some([layout |-> c.layout, zoom |-> c.zoom,
                                       shown |-> drawn.shown]),
                       !.image_cache = drawn.image_cache,
                       !.source_cache = drawn.source_cache]

-----------------------------------------------------------------------------
(* printing.rs: discovery and submission, against the state of the spooler and
   of the disk at the time the function runs *)

\* Result<T, E>
Ok(value) == [ok |-> TRUE, value |-> value]
Err(error) == [ok |-> FALSE, value |-> error]

PrinterInfo(name, is_default) == [name |-> name, is_default |-> is_default]

\* the spooler as lpstat sees it: whether the command can be run at all, whether
\* `lpstat -p -d` exits with success, and the printers its output lists
SpoolerDown == [runs |-> FALSE, success |-> FALSE, printers |-> <<>>]
SpoolerFailing == [runs |-> TRUE, success |-> FALSE, printers |-> <<>>]
SpoolerEmpty == [runs |-> TRUE, success |-> TRUE, printers |-> <<>>]
SpoolerTwo ==
    [runs |-> TRUE, success |-> TRUE,
     printers |-> <<PrinterInfo("HP", FALSE), PrinterInfo("PDF", TRUE)>>]
Spoolers == {SpoolerDown, SpoolerFailing, SpoolerEmpty, SpoolerTwo}

\* PrintError::CupsNotAvailable, as displayed
CupsNotAvailable == <<"CUPS printing system is not available or not running">>

discover_printers(spooler) ==
    IF ~spooler.runs THEN Err(CupsNotAvailable)
    ELSE IF ~spooler.success THEN Ok(<<>>)
    ELSE Ok(spooler.printers)

\* a word of lp's standard output: whether it starts with "request", and its
\* pieces between '-' characters
Word(request, parts) == [request |-> request, parts |-> parts]

\* "request id is PDF-42 (1 file(s))"
LpStdout ==
    <<Word(TRUE, <<"request">>), Word(FALSE, <<"id">>), Word(FALSE, <<"is">>),
      Word(FALSE, <<"PDF", "42">>), Word(FALSE, <<"(1">>), Word(FALSE, <<"file(s))">>)>>

\* split_whitespace().find(|s| s.starts_with("request"))
\*     .and_then(|s| s.split('-').next_back()).unwrap_or("unknown")
ParseJobId(stdout) ==
    LET hits == {i \in 1..Len(stdout) : stdout[i].request}
    IN  IF hits = {} THEN "unknown"
        ELSE LET word == stdout[CHOOSE i \in hits : \A j \in hits : i <= j]
             IN  word.parts[Len(word.parts)]

\* what a job meets when it runs: whether the temporary PNG can be written, the
\* spooler, and what running lp does ("ok", "spawn" for a command that cannot
\* be started, "status" for a non-zero exit)
PrintEnv(save_ok, spooler, lp) == [save_ok |-> save_ok, spooler |-> spooler, lp |-> lp]
PrintEnvs ==
    {PrintEnv(TRUE, SpoolerTwo, "ok"), PrintEnv(FALSE, SpoolerTwo, "ok"),
     PrintEnv(TRUE, SpoolerDown, "ok"), PrintEnv(TRUE, SpoolerEmpty, "ok"),
     PrintEnv(TRUE, SpoolerTwo, "status")}

send_to_printer(job, env) ==
    LET found == discover_printers(env.spooler)
    IN  IF ~found.ok THEN found
        ELSE IF \A i \in 1..Len(found.value) : found.value[i].name # job.printer_name
        THEN Err(<<"Printer not found", job.printer_name>>)
        ELSE IF env.lp = "spawn" THEN Err(<<"I/O error">>)
        ELSE IF env.lp = "status" THEN Err(<<"Print command failed">>)
        ELSE Ok(ParseJobId(LpStdout))

create_temp_print_file(img, env) ==
    IF env.save_ok THEN Ok("print_layout.png")
    ELSE Err(<<"Failed to render layout: Failed to save temporary file">>)

\* Result<String, PrintError>; the Layout rendered is the job's own
execute_print_job(job, env) ==
    LET img == render_layout_to_image(job.layout, job.dpi)
        temp_file == create_temp_print_file(img, env)
    IN  IF ~temp_file.ok THEN temp_file ELSE send_to_printer(job, env)

-----------------------------------------------------------------------------
(* History variables *)

\* the last step was a user event, not a direct call
NoCall == [op |-> "-", id |-> None, selected_before |-> None,
           point |-> None, result |-> None]

\* the last step called op directly, naming image id
Call(op, id) ==
    [op |-> op, id |-> id, selected_before |-> layout.selected_image_id,
     point |-> None, result |-> None]

NoSamples == [image |-> None, first |-> None, latest |-> None]

\* paths of layout files
Paths == {"a.pxl", "b.pxl"}

\* no layout file exists
NoFiles == [path \in Paths |-> None]

\* PrintStatus
\* the text of a status is a list of strings: the job id, or the parts of the error
PrintStatus_Idle == [kind |-> "Idle", text |-> <<>>]
PrintStatus_Rendering == [kind |-> "Rendering", text |-> <<>>]
PrintStatus_Completed(job_id) == [kind |-> "Completed", text |-> <<job_id>>]
PrintStatus_Failed(error) == [kind |-> "Failed", text |-> error]

\* the future PrintLayout::new hands to the runtime: discover_printers()
DiscoverTask == [kind |-> "discover", n |-> 0, job |-> None]

\* the future PrintClicked hands to the runtime: execute_print_job(job)
PrintTask(n, job) == [kind |-> "print", n |-> n, job |-> Some(job)]

\* nothing started, nothing delivered; jobs[n] is the record of the n-th print job
NoLog == [discovery |-> "pending", jobs |-> <<>>]

\* a press started a drag on image id: no pointer sample yet
PressedOn(id) == [image |-> Some(id), first |-> None, latest |-> None]

\* a pointer move (x, y) arrived while a drag was in progress
Sampled(x, y) ==
    [samples EXCEPT !.first = IF samples.first = None THEN Some(<<x, y>>) ELSE @,
                    !.latest = Some(<<x, y>>)]

-----------------------------------------------------------------------------
(* main.rs: PrintLayout::new and PrintLayout::update, one definition per message *)

Init ==
    /\ layout = Layout_new
    /\ canvas = LayoutCanvas_new(Layout_new)
    /\ drag_mode = DragNone
    /\ drag_start_pos = ZeroPos
    /\ drag_image_initial_pos = ZeroPos
    /\ drag_image_initial_size = ZeroPos
    /\ maintain_aspect_ratio = TRUE
    /\ is_modified = FALSE
    /\ next_uuid = 0
    /\ moves = 0
    /\ button_down = FALSE
    /\ presses = 0
    /\ injected = 0
    /\ call = NoCall
    /\ samples = NoSamples
    /\ print_status = PrintStatus_Idle
    /\ selected_printer = None
    /\ printers = <<>>
    /\ tasks = {DiscoverTask}
    /\ log = NoLog
    /\ bitmap = None
    /\ zoom = R(1)
    /\ current_file = None
    /\ recent_files = <<>>
    /\ disk = NoFiles

\* the anchors both SelectImage and StartResize capture when the image exists
StartDrag(id, mode) ==
    LET found == get_image(layout, id)
    IN  IF found # None
        THEN /\ drag_mode' = mode
             /\ drag_image_initial_pos' = <<found[1].x_mm, found[1].y_mm>>
             /\ drag_image_initial_size' = <<found[1].width_mm, found[1].height_mm>>
             /\ drag_start_pos' = ZeroPos
             /\ samples' = PressedOn(id)
        ELSE UNCHANGED <<drag_vars, samples>>

SelectImage(id) ==
    /\ layout' = [layout EXCEPT !.selected_image_id = Some(id)]
    /\ StartDrag(id, DragMove)
    /\ canvas' = set_layout(canvas, layout')
    /\ UNCHANGED <<maintain_aspect_ratio, is_modified, next_uuid, moves>>

StartResize(id, handle) ==
    /\ layout' = [layout EXCEPT !.selected_image_id = Some(id)]
    /\ StartDrag(id, DragResize(handle))
    /\ canvas' = set_layout(canvas, layout')
    /\ UNCHANGED <<maintain_aspect_ratio, is_modified, next_uuid, moves>>

DeselectAll ==
    /\ layout' = [layout EXCEPT !.selected_image_id = None]
    /\ drag_mode' = DragNone
    /\ canvas' = set_layout(canvas, layout')
    /\ samples' = NoSamples
    /\ UNCHANGED <<drag_start_pos, drag_image_initial_pos, drag_image_initial_size,
                   maintain_aspect_ratio, is_modified, next_uuid, moves>>

\* drag_start_pos after `if self.drag_start_pos == (0.0, 0.0) { self.drag_start_pos = (x, y) }`
CaptureStart(start, x, y) == IF start = ZeroPos THEN <<x, y>> ELSE start

MouseMoved(x, y) ==
    /\ samples' = IF drag_mode = DragNone THEN samples ELSE Sampled(x, y)
    /\ UNCHANGED <<drag_mode, drag_image_initial_pos, drag_image_initial_size,
                   maintain_aspect_ratio, is_modified, next_uuid>>
    /\ IF drag_mode = DragNone \/ layout.selected_image_id = None
       THEN UNCHANGED <<layout, canvas, drag_start_pos, moves>>
       ELSE
         LET id == layout.selected_image_id[1]
             start == CaptureStart(drag_start_pos, x, y)
             dx == RSub(x, start[1])
             dy == RSub(y, start[2])
         IN  /\ moves < MaxMoves
             /\ moves' = moves + 1
             /\ drag_start_pos' = start
             /\ IF drag_mode = DragMove
                THEN LET new_x == RAdd(drag_image_initial_pos[1], dx)
                         new_y == RAdd(drag_image_initial_pos[2], dy)
                     IN  /\ layout' = [layout EXCEPT !.images =
                                UpdateImage(layout.images, id, SetPosition(new_x, new_y))]
                         /\ canvas' = update_image_position(canvas, id, new_x, new_y)
                ELSE LET g == ResizeGeometry(drag_mode.handle,
                                  drag_image_initial_pos[1], drag_image_initial_pos[2],
                                  drag_image_initial_size[1], drag_image_initial_size[2],
                                  dx, dy, maintain_aspect_ratio)
                     IN  /\ layout' = [layout EXCEPT !.images =
                                UpdateImage(layout.images, id, SetBounds(g[1], g[2], g[3], g[4]))]
                         /\ canvas' = update_image_bounds(canvas, id, g[1], g[2], g[3], g[4])

MouseReleased ==
    /\ IF drag_mode # DragNone
       THEN /\ drag_mode' = DragNone
            /\ drag_start_pos' = ZeroPos
            /\ is_modified' = TRUE
            /\ samples' = NoSamples
       ELSE UNCHANGED <<drag_mode, drag_start_pos, is_modified, samples>>
    /\ UNCHANGED <<layout, canvas, drag_image_initial_pos, drag_image_initial_size,
                   maintain_aspect_ratio, next_uuid, moves>>

ImageMoved(id, x, y) ==
    /\ layout' = [layout EXCEPT !.images =
            UpdateImage(layout.images, id, SetPosition(x, y))]
    /\ canvas' = IF get_image(layout, id) # None THEN set_layout(canvas, layout')
                 ELSE canvas
    /\ UNCHANGED <<session_vars, next_uuid, moves, samples>>

SetSize(w, h) == [width_mm |-> w, height_mm |-> h]

ImageResized(id, width, height) ==
    /\ layout' = [layout EXCEPT !.images =
            UpdateImage(layout.images, id, SetSize(width, height))]
    /\ canvas' = IF get_image(layout, id) # None THEN set_layout(canvas, layout')
                 ELSE canvas
    /\ UNCHANGED <<session_vars, next_uuid, moves, samples>>

\* the layout after the loop over paths: one add_image per path that decodes,
\* the n-th new image getting the id first + n
RECURSIVE AddFiles(_, _, _)
AddFiles(l, paths, first) ==
    IF paths = <<>> THEN l
    ELSE IF Decodes(Head(paths))
         THEN AddFiles(add_image(l, PlacedImage_new(first + 1, Head(paths),
                                        Dimensions(Head(paths))[1],
                                        Dimensions(Head(paths))[2])),
                       Tail(paths), first + 1)
         ELSE AddFiles(l, Tail(paths), first)

Decodable(paths) == Cardinality({i \in 1..Len(paths) : Decodes(paths[i])})

ImageFilesSelected(paths) ==
    /\ next_uuid + Decodable(paths) <= MaxIds
    /\ layout' = AddFiles(layout, paths, next_uuid)
    /\ next_uuid' = next_uuid + Decodable(paths)
    /\ canvas' = set_layout(canvas, layout')
    /\ is_modified' = TRUE
    /\ UNCHANGED <<drag_vars, maintain_aspect_ratio, moves, samples>>

\* LayoutCanvas::remove_from_source_cache
remove_from_source_cache(c, path) == [c EXCEPT !.source_cache = @ \ {path}]

DeleteImageClicked ==
    /\ IF layout.selected_image_id # None
       THEN /\ layout' = remove_image(layout, layout.selected_image_id[1])
            /\ canvas' =
                 LET img == get_image(layout, layout.selected_image_id[1])
                 IN  set_layout(IF img # None
                                THEN remove_from_source_cache(canvas, img[1].path)
                                ELSE canvas,
                                layout')
            /\ is_modified' = TRUE
       ELSE UNCHANGED <<layout, canvas, is_modified>>
    /\ UNCHANGED <<drag_vars, maintain_aspect_ratio, next_uuid, moves, samples>>

ThumbnailClicked(id) ==
    /\ layout' = [layout EXCEPT !.selected_image_id = Some(id)]
    /\ canvas' = set_layout(canvas, layout')
    /\ UNCHANGED <<session_vars, next_uuid, moves, samples>>

MaintainAspectRatio(maintain) ==
    /\ maintain_aspect_ratio' = maintain
    /\ UNCHANGED <<layout, canvas, drag_vars, is_modified, next_uuid, moves, samples>>

\* what the page and image-tool messages leave alone
ToolFrame == UNCHANGED <<drag_vars, maintain_aspect_ratio, next_uuid, moves, samples>>

PaperSizeSelected(paper_size) ==
    /\ layout' = [layout EXCEPT !.page.width_mm = to_dimensions(paper_size)[1],
                                !.page.height_mm = to_dimensions(paper_size)[2],
                                !.page.paper_size = paper_size]
    /\ canvas' = set_layout(canvas, layout')
    /\ is_modified' = TRUE
    /\ ToolFrame

\* a margin text is None when it does not parse as f32, else Some(number);
\* a number is taken when it is >= 0 and below half the page
MarginAccepted(value, extent) ==
    value # None /\ RLe(R(0), value[1]) /\ RLt(value[1], RDiv(extent, R(2)))

MarginTopChanged(value) ==
    /\ IF MarginAccepted(value, layout.page.height_mm)
       THEN /\ layout' = [layout EXCEPT !.page.margin_top_mm = value[1]]
            /\ canvas' = set_layout(canvas, layout')
       ELSE UNCHANGED <<layout, canvas>>
    /\ UNCHANGED is_modified
    /\ ToolFrame

MarginBottomChanged(value) ==
    /\ IF MarginAccepted(value, layout.page.height_mm)
       THEN /\ layout' = [layout EXCEPT !.page.margin_bottom_mm = value[1]]
            /\ canvas' = set_layout(canvas, layout')
       ELSE UNCHANGED <<layout, canvas>>
    /\ UNCHANGED is_modified
    /\ ToolFrame

MarginLeftChanged(value) ==
    /\ IF MarginAccepted(value, layout.page.width_mm)
       THEN /\ layout' = [layout EXCEPT !.page.margin_left_mm = value[1]]
            /\ canvas' = set_layout(canvas, layout')
       ELSE UNCHANGED <<layout, canvas>>
    /\ UNCHANGED is_modified
    /\ ToolFrame

MarginRightChanged(value) ==
    /\ IF MarginAccepted(value, layout.page.width_mm)
       THEN /\ layout' = [layout EXCEPT !.page.margin_right_mm = value[1]]
            /\ canvas' = set_layout(canvas, layout')
       ELSE UNCHANGED <<layout, canvas>>
    /\ UNCHANGED is_modified
    /\ ToolFrame

\* variant: the orientation changes and the sides stay
OrientationToggled_sides_kept ==
    /\ layout' = [layout EXCEPT
            !.page.orientation = IF @ = "Portrait" THEN "Landscape" ELSE "Portrait"]
    /\ canvas' = set_layout(canvas, layout')
    /\ is_modified' = TRUE
    /\ ToolFrame

OrientationToggled ==
    /\ layout' = [layout EXCEPT
            !.page.width_mm = layout.page.height_mm,
            !.page.height_mm = layout.page.width_mm,
            !.page.orientation = IF @ = "Portrait" THEN "Landscape" ELSE "Portrait"]
    /\ canvas' = set_layout(canvas, layout')
    /\ is_modified' = TRUE
    /\ ToolFrame

BorderlessToggled(enabled) ==
    LET margin == IF enabled THEN R(0) ELSE DefaultMargin
    IN  /\ layout' = [layout EXCEPT !.page.borderless = enabled,
                                    !.page.margin_top_mm = margin,
                                    !.page.margin_bottom_mm = margin,
                                    !.page.margin_left_mm = margin,
                                    !.page.margin_right_mm = margin]
        /\ canvas' = set_layout(canvas, layout')
        /\ is_modified' = TRUE
        /\ ToolFrame

\* Layout::selected_image_mut
selected_image(l) ==
    IF l.selected_image_id = None THEN None
    ELSE get_image(l, l.selected_image_id[1])

\* `if let Some(img) = self.layout.selected_image_mut()`: the fields are
\* assigned, the canvas is handed the Layout and the session is modified
ChangeSelected(fields) ==
    /\ IF selected_image(layout) # None
       THEN /\ layout' = [layout EXCEPT !.images =
                    UpdateImage(layout.images, layout.selected_image_id[1], fields)]
            /\ canvas' = set_layout(canvas, layout')
            /\ is_modified' = TRUE
       ELSE UNCHANGED <<layout, canvas, is_modified>>
    /\ ToolFrame

\* the fields a rotation by `degrees` assigns: the sides swapped, the angle advanced
\* variant: the angle is not reduced modulo 360
Turned_unreduced(img, degrees) ==
    [width_mm |-> img.height_mm, height_mm |-> img.width_mm,
     rotation_degrees |-> RAdd(img.rotation_degrees, R(degrees))]

\* variant: the angle advances and the sides stay
Turned_sides_kept(img, degrees) ==
    [rotation_degrees |-> RRem(RAdd(img.rotation_degrees, R(degrees)), R(360))]

Turned(img, degrees) ==
    [width_mm |-> img.height_mm, height_mm |-> img.width_mm,
     rotation_degrees |-> RRem(RAdd(img.rotation_degrees, R(degrees)), R(360))]

RotateImageCW ==
    ChangeSelected(IF selected_image(layout) = None THEN [id |-> 0]
                   ELSE Turned(selected_image(layout)[1], 90))

RotateImageCCW ==
    ChangeSelected(IF selected_image(layout) = None THEN [id |-> 0]
                   ELSE Turned(selected_image(layout)[1], 270))

FlipImageHorizontal ==
    ChangeSelected(IF selected_image(layout) = None THEN [id |-> 0]
                   ELSE [flip_horizontal |-> ~selected_image(layout)[1].flip_horizontal])

FlipImageVertical ==
    ChangeSelected(IF selected_image(layout) = None THEN [id |-> 0]
                   ELSE [flip_vertical |-> ~selected_image(layout)[1].flip_vertical])

\* the text is a percentage or does not parse (None)
ImageOpacityChanged(value) ==
    IF value = None
    THEN UNCHANGED <<layout, canvas, is_modified>> /\ ToolFrame
    ELSE ChangeSelected([opacity |-> RMin(RMax(RDiv(value[1], R(100)), R(0)), R(1))])

\* the width a height-driven change gives under the lock, and the reverse
ImageWidthChanged(value) ==
    IF value = None \/ ~RLt(R(0), value[1])
    THEN UNCHANGED <<layout, canvas, is_modified>> /\ ToolFrame
    ELSE ChangeSelected(
            IF selected_image(layout) = None \/ ~maintain_aspect_ratio
            THEN [width_mm |-> value[1]]
            ELSE LET img == selected_image(layout)[1]
                     aspect == RDiv(R(img.original_height_px), R(img.original_width_px))
                 IN  [width_mm |-> value[1], height_mm |-> RMul(value[1], aspect)])

ImageHeightChanged(value) ==
    IF value = None \/ ~RLt(R(0), value[1])
    THEN UNCHANGED <<layout, canvas, is_modified>> /\ ToolFrame
    ELSE ChangeSelected(
            IF selected_image(layout) = None \/ ~maintain_aspect_ratio
            THEN [height_mm |-> value[1]]
            ELSE LET img == selected_image(layout)[1]
                     aspect == RDiv(R(img.original_width_px), R(img.original_height_px))
                 IN  [height_mm |-> value[1], width_mm |-> RMul(value[1], aspect)])

NewLayout ==
    /\ layout' = Layout_new
    /\ canvas' = set_layout(canvas, layout')
    /\ current_file' = None
    /\ is_modified' = FALSE
    /\ UNCHANGED <<drag_vars, maintain_aspect_ratio, next_uuid, moves, samples>>

\* the factor of one zoom step, 1.2
ZoomFactor == <<6, 5>>

\* what the zoom messages leave alone
ZoomFrame == UNCHANGED <<layout, session_vars, next_uuid, moves, samples>>

ZoomIn ==
    /\ zoom' = RMin(RMul(zoom, ZoomFactor), R(5))
    /\ canvas' = set_zoom(canvas, zoom')
    /\ ZoomFrame

ZoomOut ==
    /\ zoom' = RMax(RDiv(zoom, ZoomFactor), <<1, 10>>)
    /\ canvas' = set_zoom(canvas, zoom')
    /\ ZoomFrame

ZoomReset ==
    /\ zoom' = R(1)
    /\ canvas' = set_zoom(canvas, zoom')
    /\ ZoomFrame

ZoomToFit ==
    /\ zoom' = <<1, 2>>
    /\ canvas' = set_zoom(canvas, zoom')
    /\ ZoomFrame

\* ConfigManager::add_recent_file: the path moves to the front, ten are kept
RecentKept == 10

\* variant: an entry of the same path stays where it is
add_recent_file_keeping(recent, path) ==
    LET listed == <<path>> \o recent
    IN  SubSeq(listed, 1, IF Len(listed) < RecentKept THEN Len(listed) ELSE RecentKept)

add_recent_file(recent, path) ==
    LET Other(p) == p # path
        listed == <<path>> \o SelectSeq(recent, Other)
    IN  SubSeq(listed, 1, IF Len(listed) < RecentKept THEN Len(listed) ELSE RecentKept)

\* LayoutLoaded(result): the message carries the ProjectLayout or the error text,
\* not the path it was read from; of a ProjectLayout only the Layout is modelled
LayoutLoaded(result) ==
    /\ IF result.ok
       THEN /\ layout' = result.value
            /\ canvas' = set_layout(canvas, layout')
            /\ is_modified' = FALSE
            /\ recent_files' = IF current_file # None
                               THEN add_recent_file(recent_files, current_file[1])
                               ELSE recent_files
       ELSE UNCHANGED <<layout, canvas, is_modified, recent_files>>
    /\ UNCHANGED <<drag_vars, maintain_aspect_ratio, next_uuid, moves, samples,
                   current_file, disk>>

\* futures of the file messages the runtime holds: Task::done(SaveLayoutAs), the
\* two rfd dialogs, and the read of a project file (load_layout after the Open
\* dialog, read_to_string and from_str after Open Recent), `job` being its path
SaveAsTask == [kind |-> "save_as", n |-> 0, job |-> None]
SaveDialogTask == [kind |-> "save_dialog", n |-> 0, job |-> None]
OpenDialogTask == [kind |-> "open_dialog", n |-> 0, job |-> None]
LoadTask(path) == [kind |-> "load", n |-> 0, job |-> Some(path)]

\* ConfigManager::load_layout: the Layout the file holds, or the error text
load_layout(files, path) ==
    IF files[path] # None THEN Ok(files[path][1]) ELSE Err(<<"Failed to read file">>)

\* what the file messages leave alone
FileFrame ==
    UNCHANGED <<layout, canvas, drag_vars, maintain_aspect_ratio, next_uuid, moves,
                samples>>

\* save_layout_to_file(path); written: ConfigManager::save_layout returned Ok
save_layout_to_file(path, written) ==
    IF written
    THEN /\ disk' = [disk EXCEPT ![path] = Some(layout)]
         /\ recent_files' = add_recent_file(recent_files, path)
         /\ current_file' = Some(path)
         /\ is_modified' = FALSE
    ELSE UNCHANGED <<disk, recent_files, current_file, is_modified>>

SaveLayoutClicked(written) ==
    /\ IF current_file # None
       THEN /\ save_layout_to_file(current_file[1], written)
            /\ UNCHANGED tasks
       ELSE /\ tasks' = tasks \cup {SaveAsTask}
            /\ UNCHANGED <<disk, recent_files, current_file, is_modified>>
    /\ FileFrame

\* running: the futures the runtime holds once the message has been delivered
SaveLayoutAs(running) ==
    /\ tasks' = running \cup {SaveDialogTask}
    /\ UNCHANGED <<disk, recent_files, current_file, is_modified>>
    /\ FileFrame

LayoutSavePathSelected(path, written) ==
    /\ IF path # None
       THEN save_layout_to_file(path[1], written)
       ELSE UNCHANGED <<disk, recent_files, current_file, is_modified>>
    /\ FileFrame

OpenLayoutClicked ==
    /\ tasks' = tasks \cup {OpenDialogTask}
    /\ UNCHANGED <<disk, recent_files, current_file, is_modified>>
    /\ FileFrame

LayoutOpenPathSelected(running, path) ==
    /\ tasks' = IF path # None THEN running \cup {LoadTask(path[1])} ELSE running
    /\ UNCHANGED <<disk, recent_files, current_file, is_modified>>
    /\ FileFrame

\* OpenRecentFile(path): the file is read if it exists, else the entry is dropped
OpenRecentFile(path) ==
    /\ IF disk[path] # None
       THEN /\ tasks' = tasks \cup {LoadTask(path)}
            /\ UNCHANGED recent_files
       ELSE LET Other(p) == p # path
            IN  /\ recent_files' = SelectSeq(recent_files, Other)
                /\ UNCHANGED tasks
    /\ UNCHANGED <<disk, current_file, is_modified>>
    /\ FileFrame

\* the session fields the printing messages leave alone
core_vars == <<layout, canvas, session_vars, next_uuid, moves, samples>>

\* PrintLayout.print_copies as new() sets it without saved settings, and print_dpi
print_copies == 1
print_dpi == 300

\* selected_printer after PrintersDiscovered: the first default printer, else
\* the first printer, else what it was
PrinterChoice(found, selected) ==
    LET defaults == {i \in 1..Len(found) : found[i].is_default}
    IN  IF defaults # {}
        THEN Some(found[CHOOSE i \in defaults : \A j \in defaults : i <= j].name)
        ELSE IF found # <<>> THEN Some(found[1].name)
        ELSE selected

PrintersDiscovered(found) ==
    /\ printers' = found
    /\ selected_printer' = PrinterChoice(found, selected_printer)
    /\ UNCHANGED print_status

PrinterSelected(printer_name) ==
    /\ selected_printer' = Some(printer_name)
    /\ UNCHANGED <<printers, print_status>>

\* PrintJob { layout: self.layout.clone(), printer_name, copies, dpi }
PrintJob(l, printer_name, copies, dpi) ==
    [layout |-> l, printer_name |-> printer_name, copies |-> copies, dpi |-> dpi]

\* the history record of a job at its start: the session Layout at PrintClicked,
\* the bitmap the job rendered, the number of PrintJobCompleted it delivered,
\* whether the session Layout was another one by then, and whether the job
\* succeeded
Started(job) ==
    [submitted |-> layout, rendered |-> None, delivered |-> 0, changed |-> FALSE,
     ok |-> None]

\* PrintClicked: nothing without images or without a printer, else the status
\* becomes Rendering and the job goes to the runtime
PrintClicked ==
    IF layout.images = <<>> \/ selected_printer = None
    THEN UNCHANGED <<print_status, tasks, log>>
    ELSE LET job == PrintJob(layout, selected_printer[1], print_copies, print_dpi)
             n == Len(log.jobs) + 1
         IN  /\ n <= MaxJobs
             /\ print_status' = PrintStatus_Rendering
             /\ tasks' = tasks \cup {PrintTask(n, job)}
             /\ log' = [log EXCEPT !.jobs = Append(@, Started(job))]

\* variant: a failure is logged and the status left as it was
PrintJobCompleted_silent(result) ==
    print_status' = IF result.ok THEN PrintStatus_Completed(result.value)
                    ELSE print_status

PrintJobCompleted(result) ==
    print_status' = IF result.ok THEN PrintStatus_Completed(result.value)
                    ELSE PrintStatus_Failed(result.value)

DismissPrintStatus == print_status' = PrintStatus_Idle

-----------------------------------------------------------------------------
(* canvas_widget.rs: LayoutCanvas::update, the events the canvas turns into messages *)

\* a cursor position in pixels, relative to the canvas origin, given in millimetres
\* at zoom 1.0
AtMm(x, y) == <<RMul(R(x), PixelsPerMm), RMul(R(y), PixelsPerMm)>>

\* a cursor position left of the canvas
OffCanvas == <<R(-10), R(100)>>

\* cursor positions of the press and release events: the empty corner of the page,
\* the corners, edge midpoints and centre of the box of a new image, and one
\* position off the canvas
CursorPoints ==
    {AtMm(0, 0)}
    \cup {AtMm(x, y) : x \in {50, 100, 150}, y \in {50, 75, 100}}
    \cup {OffCanvas}

\* cursor positions of the move events: the page corner, two box corners far enough
\* apart to drive a new image's width and height below the minimum, and one
\* position off the canvas
MovePoints == {AtMm(0, 0), AtMm(150, 100), OffCanvas}

\* all sequences of at most MaxBatch paths
PathBatches == UNION {[1..n -> Files] : n \in 0..MaxBatch}

\* ButtonPressed(Left): a handle of the selected image, else the topmost image
\* under the cursor, else nothing; no message when the cursor is off the canvas
ButtonPressed(cursor) ==
    LET pos == position_in(canvas, layout, cursor)
    IN  IF pos = None
        THEN UNCHANGED <<layout, canvas, session_vars, next_uuid, moves, samples>>
        ELSE
          LET hit == get_resize_handle_at_point(canvas, pos[1][1], pos[1][2])
          IN  IF hit # None
              THEN StartResize(hit[1][1], hit[1][2])
              ELSE
                LET image == find_image_at_point(canvas.layout,
                                 pixels_to_mm(canvas, pos[1][1]),
                                 pixels_to_mm(canvas, pos[1][2]))
                IN  IF image # None THEN SelectImage(image[1].id) ELSE DeselectAll

CursorMoved(cursor) ==
    LET pos == position_in(canvas, layout, cursor)
    IN  IF pos = None
        THEN UNCHANGED <<layout, canvas, session_vars, next_uuid, moves, samples>>
        ELSE MouseMoved(pixels_to_mm(canvas, pos[1][1]), pixels_to_mm(canvas, pos[1][2]))

ButtonReleased(cursor) ==
    LET pos == position_in(canvas, layout, cursor)
    IN  IF pos = None
        THEN UNCHANGED <<layout, canvas, session_vars, next_uuid, moves, samples>>
        ELSE MouseReleased

-----------------------------------------------------------------------------
(* The session as the user drives it: mouse events on or off the canvas, and the
   messages the widgets of the view send *)

\* the left button goes down only when it is up
OnButtonPressed ==
    \E cursor \in CursorPoints :
        /\ ~button_down
        /\ presses < MaxPresses
        /\ ButtonPressed(cursor)
        /\ button_down' = TRUE
        /\ presses' = presses + 1
        /\ UNCHANGED injected
        /\ call' = NoCall
        /\ UNCHANGED rest_vars

OnCursorMoved ==
    \E cursor \in MovePoints :
        /\ CursorMoved(cursor)
        /\ UNCHANGED <<button_down, presses, injected>>
        /\ call' = NoCall
        /\ UNCHANGED rest_vars

\* the left button goes up only when it is down
OnButtonReleased ==
    \E cursor \in CursorPoints :
        /\ button_down
        /\ ButtonReleased(cursor)
        /\ button_down' = FALSE
        /\ UNCHANGED <<presses, injected>>
        /\ call' = NoCall
        /\ UNCHANGED rest_vars

\* a click on a widget of the view needs the button to be up beforehand
OnImageFilesSelected ==
    \E paths \in PathBatches :
        /\ ImageFilesSelected(paths)
        /\ UNCHANGED <<button_down, presses, injected>>
        /\ call' = NoCall
        /\ UNCHANGED rest_vars

\* the Delete button has on_press only while an image is selected
OnDeleteImageClicked ==
    /\ ~button_down
    /\ layout.selected_image_id # None
    /\ DeleteImageClicked
    /\ UNCHANGED <<button_down, presses, injected>>
    /\ call' = NoCall
    /\ UNCHANGED rest_vars

\* the view has one thumbnail button per image of the layout
OnThumbnailClicked ==
    \E i \in 1..Len(layout.images) :
        /\ ~button_down
        /\ ThumbnailClicked(layout.images[i].id)
        /\ UNCHANGED <<button_down, presses, injected>>
        /\ call' = NoCall
        /\ UNCHANGED rest_vars

\* the checkbox is shown while an image is selected and sends the negated setting
OnMaintainAspectRatio ==
    /\ ~button_down
    /\ layout.selected_image_id # None
    /\ MaintainAspectRatio(~maintain_aspect_ratio)
    /\ UNCHANGED <<button_down, presses, injected>>
    /\ call' = NoCall
    /\ UNCHANGED rest_vars

OnNewLayout ==
    /\ ~button_down
    /\ NewLayout
    /\ UNCHANGED <<button_down, presses, injected>>
    /\ call' = NoCall
    /\ UNCHANGED <<print_vars, recent_files, disk, zoom>>

Next ==
    \/ OnButtonPressed
    \/ OnCursorMoved
    \/ OnButtonReleased
    \/ OnImageFilesSelected
    \/ OnDeleteImageClicked
    \/ OnThumbnailClicked
    \/ OnMaintainAspectRatio
    \/ OnNewLayout

Spec == Init /\ [][Next]_vars

-----------------------------------------------------------------------------
(* PrintLayout::update also receiving messages that name an image id which is
   not in the layout: ImageMoved and ImageResized (sent by no widget of this
   build) and a ThumbnailClicked for a thumbnail whose image is gone *)

\* ids that were deleted or never handed out
AbsentIds == {id \in Ids : get_image(layout, id) = None}

\* positions and sizes carried by the injected messages
InjectedPos == <<R(20), R(30)>>
InjectedSize == <<R(40), R(30)>>

InjectImageMoved ==
    \E id \in AbsentIds :
        /\ injected < MaxInjected
        /\ ImageMoved(id, InjectedPos[1], InjectedPos[2])
        /\ injected' = injected + 1
        /\ call' = NoCall
        /\ UNCHANGED rest_vars
        /\ UNCHANGED <<button_down, presses>>

InjectImageResized ==
    \E id \in AbsentIds :
        /\ injected < MaxInjected
        /\ ImageResized(id, InjectedSize[1], InjectedSize[2])
        /\ injected' = injected + 1
        /\ call' = NoCall
        /\ UNCHANGED rest_vars
        /\ UNCHANGED <<button_down, presses>>

InjectThumbnailClicked ==
    \E id \in AbsentIds :
        /\ injected < MaxInjected
        /\ ThumbnailClicked(id)
        /\ injected' = injected + 1
        /\ call' = NoCall
        /\ UNCHANGED rest_vars
        /\ UNCHANGED <<button_down, presses>>

NextUpdate ==
    \/ OnButtonPressed
    \/ OnCursorMoved
    \/ OnButtonReleased
    \/ OnImageFilesSelected
    \/ OnDeleteImageClicked
    \/ OnThumbnailClicked
    \/ OnMaintainAspectRatio
    \/ OnNewLayout
    \/ InjectImageMoved
    \/ InjectImageResized
    \/ InjectThumbnailClicked

SpecUpdate == Init /\ [][NextUpdate]_vars

-----------------------------------------------------------------------------
(* The Layout driven directly through its own operations, from Layout::new() *)

\* every id remove_image can be given; the last is never handed out
LayoutIds == 1..(MaxLayoutImages + 1)

\* the PlacedImage values handed to add_image: a 100 x 50 box at x = 0 and a
\* rotated one at x = 50 overlapping it, each arriving with a stale z_index
NewImages(id) ==
    {[PlacedImage_new(id, "wide.png", 200, 100)
          EXCEPT !.x_mm = R(0), !.z_index = 7],
     [PlacedImage_new(id, "wide.png", 200, 100)
          EXCEPT !.rotation_degrees = R(90), !.z_index = 7]}

\* points in one box only, in both, and in none
HitPoints == {<<R(25), R(75)>>, <<R(75), R(75)>>, <<R(125), R(75)>>, <<R(75), R(120)>>}

LayoutFrame == UNCHANGED <<canvas, session_vars, moves, button_down, presses,
                           injected, samples, rest_vars>>

LayoutAddImage ==
    \E image \in NewImages(next_uuid + 1) :
        /\ next_uuid < MaxLayoutImages
        /\ layout' = add_image(layout, image)
        /\ next_uuid' = next_uuid + 1
        /\ call' = Call("add_image", Some(image.id))
        /\ LayoutFrame

LayoutRemoveImage ==
    \E id \in LayoutIds :
        /\ layout' = remove_image(layout, id)
        /\ call' = Call("remove_image", Some(id))
        /\ UNCHANGED next_uuid
        /\ LayoutFrame

\* selected_image_id is assigned by the owner of the Layout: an image of it, or None
LayoutSelect ==
    \E selected \in {None} \cup {Some(layout.images[i].id) : i \in 1..Len(layout.images)} :
        /\ layout' = [layout EXCEPT !.selected_image_id = selected]
        /\ call' = Call("select", selected)
        /\ UNCHANGED next_uuid
        /\ LayoutFrame

LayoutFindImageAtPoint ==
    \E point \in HitPoints :
        LET found == find_image_at_point(layout, point[1], point[2])
        IN  /\ call' = [Call("find_image_at_point", None) EXCEPT
                            !.point = Some(point),
                            !.result = IF found = None THEN None ELSE Some(found[1].id)]
            /\ UNCHANGED <<layout, next_uuid>>
            /\ LayoutFrame

NextLayout ==
    \/ LayoutAddImage
    \/ LayoutRemoveImage
    \/ LayoutSelect
    \/ LayoutFindImageAtPoint

SpecLayout == Init /\ [][NextLayout]_vars

-----------------------------------------------------------------------------
(* Printing: PrintLayout::update receiving the printing messages and the
   messages that change the Layout, in any order, while the runtime resolves
   the futures it was handed *)

\* the session after new(), without saved preferences
InitPrint ==
    /\ layout = Layout_new
    /\ canvas = LayoutCanvas_new(Layout_new)
    /\ drag_mode = DragNone
    /\ drag_start_pos = ZeroPos
    /\ drag_image_initial_pos = ZeroPos
    /\ drag_image_initial_size = ZeroPos
    /\ maintain_aspect_ratio = TRUE
    /\ is_modified = FALSE
    /\ next_uuid = 0
    /\ moves = 0
    /\ button_down = FALSE
    /\ presses = 0
    /\ injected = 0
    /\ call = NoCall
    /\ samples = NoSamples
    /\ print_status = PrintStatus_Idle
    /\ selected_printer = None
    /\ printers = <<>>
    /\ tasks = {DiscoverTask}
    /\ log = NoLog
    /\ bitmap = None
    /\ zoom = R(1)
    /\ current_file = None
    /\ recent_files = <<>>
    /\ disk = NoFiles

PrintFrame == UNCHANGED <<core_vars, button_down, presses, injected, bitmap,
                          file_vars, zoom>>

\* variant: the future is polled again after it has resolved
Resolved_kept(running, task) == running

\* the futures still running once `task` has resolved
Resolved(running, task) == running \ {task}

\* variant: the job renders the Layout the session holds when the job runs
JobLayout_shared(job, current) == current

\* the Layout a job renders: the clone it was built with
JobLayout(job, current) == job.layout

\* discover_printers().unwrap_or_else(|e| Vec::new()) resolves and
\* PrintersDiscovered is handled
DiscoveryResolves ==
    \E spooler \in Spoolers :
        LET found == discover_printers(spooler)
        IN  /\ DiscoverTask \in tasks
            /\ PrintersDiscovered(IF found.ok THEN found.value ELSE <<>>)
            /\ tasks' = Resolved(tasks, DiscoverTask)
            /\ log' = [log EXCEPT !.discovery = IF found.ok THEN "ok" ELSE "unavailable"]
            /\ call' = NoCall
            /\ PrintFrame

\* execute_print_job(job) resolves and PrintJobCompleted is handled
PrintTaskResolves ==
    \E task \in tasks, env \in PrintEnvs :
        /\ task.kind = "print"
        /\ LET job == [task.job[1] EXCEPT !.layout = JobLayout(task.job[1], layout)]
               result == execute_print_job(job, env)
           IN  /\ PrintJobCompleted(result)
               /\ log' = [log EXCEPT !.jobs[task.n] =
                              [@ EXCEPT !.rendered =
                                            Some(render_layout_to_image(job.layout, job.dpi)),
                                        !.delivered = IF @ < 2 THEN @ + 1 ELSE @,
                                        !.changed = layout # log.jobs[task.n].submitted,
                                        !.ok = Some(result.ok)]]
        /\ tasks' = Resolved(tasks, task)
        /\ UNCHANGED <<selected_printer, printers>>
        /\ call' = NoCall
        /\ PrintFrame

SendPrinterSelected ==
    \E i \in 1..Len(printers) :
        /\ PrinterSelected(printers[i].name)
        /\ UNCHANGED <<tasks, log>>
        /\ call' = NoCall
        /\ PrintFrame

SendPrintClicked ==
    /\ PrintClicked
    /\ UNCHANGED <<selected_printer, printers>>
    /\ call' = NoCall
    /\ PrintFrame

SendDismissPrintStatus ==
    /\ DismissPrintStatus
    /\ UNCHANGED <<selected_printer, printers, tasks, log>>
    /\ call' = NoCall
    /\ PrintFrame

\* a message that changes the Layout, counted
Edit ==
    /\ injected < MaxEdits
    /\ injected' = injected + 1
    /\ call' = NoCall
    /\ UNCHANGED <<button_down, presses, rest_vars>>

\* CanvasMessage::ImageMoved and ImageResized for an image of the layout
SendImageMoved ==
    \E i \in 1..Len(layout.images) :
        ImageMoved(layout.images[i].id, InjectedPos[1], InjectedPos[2]) /\ Edit

SendImageResized ==
    \E i \in 1..Len(layout.images) :
        ImageResized(layout.images[i].id, InjectedSize[1], InjectedSize[2]) /\ Edit

\* the file dialog returns one file
SendImageFilesSelected == ImageFilesSelected(<<"wide.png">>) /\ Edit

SendThumbnailClicked ==
    \E i \in 1..Len(layout.images) : ThumbnailClicked(layout.images[i].id) /\ Edit

SendDeleteImageClicked == DeleteImageClicked /\ Edit

SendNewLayout ==
    /\ NewLayout
    /\ injected < MaxEdits
    /\ injected' = injected + 1
    /\ call' = NoCall
    /\ UNCHANGED <<button_down, presses, print_vars, recent_files, disk, zoom>>

NextPrint ==
    \/ DiscoveryResolves
    \/ PrintTaskResolves
    \/ SendPrinterSelected
    \/ SendPrintClicked
    \/ SendDismissPrintStatus
    \/ SendImageMoved
    \/ SendImageResized
    \/ SendImageFilesSelected
    \/ SendThumbnailClicked
    \/ SendDeleteImageClicked
    \/ SendNewLayout

SpecPrint == InitPrint /\ [][NextPrint]_vars

\* the printing messages alone, with the messages that fill and empty the Layout
NextPrintLive ==
    \/ DiscoveryResolves
    \/ PrintTaskResolves
    \/ SendPrinterSelected
    \/ SendPrintClicked
    \/ SendDismissPrintStatus
    \/ SendImageFilesSelected
    \/ SendNewLayout

\* the runtime runs every future it was handed until it resolves
SpecPrintLive == InitPrint /\ [][NextPrintLive]_vars /\ WF_vars(PrintTaskResolves)

-----------------------------------------------------------------------------
(* Rendering: the rasterizer and the canvas draw applied to Layouts built by
   add_image from a few images *)

\* images of one Layout in a run of the renderers
MaxRenderImages == 2

\* resolutions: the session's print_dpi and a coarse one
Dpis == {print_dpi, 10}

\* a 1000 x 1000 px source placed 100 x 100 mm at (50, 50)
Square(id) == PlacedImage_new(id, "wide.png", 1000, 1000)

\* the images a Layout is filled with: the placed square, moved over it, with a
\* source that does not decode, half transparent (0.5 and 0.505), and turned by
\* a few angles, whole and fractional
Placed(id) ==
    {Square(id),
     [Square(id) EXCEPT !.x_mm = R(100), !.y_mm = R(75)],
     [Square(id) EXCEPT !.path = "bad.png"],
     [Square(id) EXCEPT !.opacity = <<1, 2>>],
     [Square(id) EXCEPT !.opacity = <<101, 200>>]}
    \cup {[Square(id) EXCEPT !.rotation_degrees = turn] :
             turn \in {R(87), R(93), R(-90), R(270), R(95), <<191, 2>>}}

RECURSIVE Filled(_)
Filled(n) ==
    IF n = 0 THEN {Layout_new}
    ELSE {add_image(l, image) : l \in Filled(n - 1), image \in Placed(n)}

RenderLayouts == UNION {Filled(n) : n \in 0..MaxRenderImages}

InitRender ==
    /\ layout \in RenderLayouts
    /\ canvas = LayoutCanvas_new(layout)
    /\ drag_mode = DragNone
    /\ drag_start_pos = ZeroPos
    /\ drag_image_initial_pos = ZeroPos
    /\ drag_image_initial_size = ZeroPos
    /\ maintain_aspect_ratio = TRUE
    /\ is_modified = FALSE
    /\ next_uuid = Len(layout.images)
    /\ moves = 0
    /\ button_down = FALSE
    /\ presses = 0
    /\ injected = 0
    /\ call = NoCall
    /\ samples = NoSamples
    /\ print_status = PrintStatus_Idle
    /\ selected_printer = None
    /\ printers = <<>>
    /\ tasks = {}
    /\ log = NoLog
    /\ bitmap = None
    /\ zoom = R(1)
    /\ current_file = None
    /\ recent_files = <<>>
    /\ disk = NoFiles

RenderFrame ==
    UNCHANGED <<session_vars, next_uuid, moves, samples, button_down, presses,
                injected, call, print_status, selected_printer, printers, tasks, log,
                file_vars, zoom>>

\* render_layout_to_image(&layout, dpi)
Rasterize ==
    \E dpi \in Dpis :
        /\ bitmap' = Some([dpi |-> dpi, img |-> render_layout_to_image(layout, dpi)])
        /\ UNCHANGED <<layout, canvas>>
        /\ RenderFrame

\* the runtime draws the canvas
Paint ==
    /\ canvas' = draw(canvas)
    /\ UNCHANGED <<layout, bitmap>>
    /\ RenderFrame

\* the session hands the canvas its Layout again, which clears the geometry
Relayout ==
    /\ canvas' = set_layout(canvas, layout)
    /\ UNCHANGED <<layout, bitmap>>
    /\ RenderFrame

NextRender == Rasterize \/ Paint \/ Relayout

SpecRender == InitRender /\ [][NextRender]_vars

-----------------------------------------------------------------------------
(* Canvas and session: the messages that change the Layout, with the runtime
   drawing the canvas between them *)

PaperSizes == {"A5", "Letter"}

\* margin texts: not a number, 10, and 200, which is more than half the page
MarginTexts == {None, Some(R(10)), Some(R(200))}

\* texts of the image tools: not a number, and 40 (percent or mm)
ToolTexts == {None, Some(R(40))}

SendPaperSizeSelected ==
    \E paper_size \in PaperSizes : PaperSizeSelected(paper_size) /\ Edit

SendMarginChanged ==
    \E value \in MarginTexts :
        /\ \/ MarginTopChanged(value)
           \/ MarginBottomChanged(value)
           \/ MarginLeftChanged(value)
           \/ MarginRightChanged(value)
        /\ Edit

SendOrientationToggled == OrientationToggled /\ Edit

SendBorderlessToggled == \E enabled \in BOOLEAN : BorderlessToggled(enabled) /\ Edit

SendRotateImage == (RotateImageCW \/ RotateImageCCW) /\ Edit

SendFlipImage == (FlipImageHorizontal \/ FlipImageVertical) /\ Edit

SendImageToolText ==
    \E value \in ToolTexts :
        /\ \/ ImageOpacityChanged(value)
           \/ ImageWidthChanged(value)
           \/ ImageHeightChanged(value)
        /\ Edit

\* the messages the canvas publishes for the pointer
SendSelectImage ==
    \E i \in 1..Len(layout.images) : SelectImage(layout.images[i].id) /\ Edit

SendStartResize ==
    \E i \in 1..Len(layout.images) :
        StartResize(layout.images[i].id, "BottomRight") /\ Edit

SendDeselectAll == DeselectAll /\ Edit

SendMouseMoved ==
    \E pos \in {InjectedPos, InjectedSize} : MouseMoved(pos[1], pos[2]) /\ Edit

SendMouseReleased == MouseReleased /\ Edit

NextSync ==
    \/ SendImageFilesSelected
    \/ SendThumbnailClicked
    \/ SendDeleteImageClicked
    \/ SendNewLayout
    \/ SendImageMoved
    \/ SendImageResized
    \/ SendPaperSizeSelected
    \/ SendMarginChanged
    \/ SendOrientationToggled
    \/ SendBorderlessToggled
    \/ SendRotateImage
    \/ SendFlipImage
    \/ SendImageToolText
    \/ SendSelectImage
    \/ SendStartResize
    \/ SendDeselectAll
    \/ SendMouseMoved
    \/ SendMouseReleased
    \/ Paint

SpecSync == Init /\ [][NextSync]_vars

-----------------------------------------------------------------------------
(* Zoom: the session starts with the zoom_level of the stored preferences and
   receives the zoom messages in any order *)

\* zoom messages in one run
MaxZoomSteps == 6

\* zoom_level values of config.json: the default 1.0, and 0.05, 0.5 and 7.5, which
\* only a file written by hand or by another build carries
StoredZooms == {R(1), <<1, 20>>, <<1, 2>>, <<15, 2>>}

\* PrintLayout::new: `zoom: preferences.zoom_level` beside LayoutCanvas::new
InitZoom ==
    /\ layout = Layout_new
    /\ canvas = LayoutCanvas_new(Layout_new)
    /\ drag_mode = DragNone
    /\ drag_start_pos = ZeroPos
    /\ drag_image_initial_pos = ZeroPos
    /\ drag_image_initial_size = ZeroPos
    /\ maintain_aspect_ratio = TRUE
    /\ is_modified = FALSE
    /\ next_uuid = 0
    /\ moves = 0
    /\ button_down = FALSE
    /\ presses = 0
    /\ injected = 0
    /\ call = NoCall
    /\ samples = NoSamples
    /\ print_status = PrintStatus_Idle
    /\ selected_printer = None
    /\ printers = <<>>
    /\ tasks = {DiscoverTask}
    /\ log = NoLog
    /\ bitmap = None
    /\ zoom \in StoredZooms
    /\ current_file = None
    /\ recent_files = <<>>
    /\ disk = NoFiles

ZoomStep ==
    /\ injected < MaxZoomSteps
    /\ injected' = injected + 1
    /\ UNCHANGED <<button_down, presses, call, print_vars, file_vars>>

SendZoomIn == ZoomIn /\ ZoomStep

SendZoomOut == ZoomOut /\ ZoomStep

SendZoomReset == ZoomReset /\ ZoomStep

SendZoomToFit == ZoomToFit /\ ZoomStep

NextZoom == SendZoomIn \/ SendZoomOut \/ SendZoomReset \/ SendZoomToFit

SpecZoom == InitZoom /\ [][NextZoom]_vars

-----------------------------------------------------------------------------
(* The page and image tools: OrientationToggled and the rotate buttons applied
   in a row to Layouts built in the session or read from a project file *)

\* messages in one run of the tools
MaxToolSteps == 6

\* rotation_degrees a project file carries: the field is a free f32
StoredRotations == {R(400), R(-180)}

\* the id of the image of a project file, outside the ids the session hands out
StoredId == MaxIds + MaxLayoutImages + 1

\* a Layout of a project file: one selected image
StoredLayout(rotation) ==
    LET image == [PlacedImage_new(StoredId, "wide.png", 200, 100)
                      EXCEPT !.rotation_degrees = rotation]
    IN  [add_image(Layout_new, image) EXCEPT !.selected_image_id = Some(StoredId)]

\* history: the tool messages processed in a row and the Layout before each
Trail(ops, befores) == [op |-> "tools", ops |-> ops, befores |-> befores]

Extend(op) ==
    IF call.op = "tools"
    THEN Trail(Append(call.ops, op), Append(call.befores, layout))
    ELSE Trail(<<op>>, <<layout>>)

ToolStep ==
    /\ injected < MaxToolSteps
    /\ injected' = injected + 1
    /\ UNCHANGED <<button_down, presses, print_vars, zoom>>

ToolsImageFilesSelected ==
    /\ ImageFilesSelected(<<"wide.png">>)
    /\ call' = NoCall
    /\ ToolStep
    /\ UNCHANGED file_vars

ToolsThumbnailClicked ==
    \E i \in 1..Len(layout.images) :
        /\ ThumbnailClicked(layout.images[i].id)
        /\ call' = NoCall
        /\ ToolStep
        /\ UNCHANGED file_vars

ToolsLayoutLoaded ==
    \E rotation \in StoredRotations :
        /\ LayoutLoaded(Ok(StoredLayout(rotation)))
        /\ call' = NoCall
        /\ ToolStep

ToolsOrientationToggled ==
    /\ OrientationToggled
    /\ call' = Extend("OrientationToggled")
    /\ ToolStep
    /\ UNCHANGED file_vars

ToolsRotateImageCW ==
    /\ RotateImageCW
    /\ call' = Extend("RotateImageCW")
    /\ ToolStep
    /\ UNCHANGED file_vars

ToolsRotateImageCCW ==
    /\ RotateImageCCW
    /\ call' = Extend("RotateImageCCW")
    /\ ToolStep
    /\ UNCHANGED file_vars

NextTools ==
    \/ ToolsImageFilesSelected
    \/ ToolsThumbnailClicked
    \/ ToolsLayoutLoaded
    \/ ToolsOrientationToggled
    \/ ToolsRotateImageCW
    \/ ToolsRotateImageCCW

SpecTools == Init /\ [][NextTools]_vars

-----------------------------------------------------------------------------
(* The recent-files list: add_recent_file called in a row on the list of a new
   installation and on lists of nine and ten files kept from earlier sessions *)

\* calls of add_recent_file in one run
MaxRecentCalls == 3

\* ten files opened in earlier sessions, newest first
TenFiles ==
    <<"f1.pxl", "f2.pxl", "f3.pxl", "f4.pxl", "f5.pxl",
      "f6.pxl", "f7.pxl", "f8.pxl", "f9.pxl", "f10.pxl">>

\* recent_files of the preferences at the first call
StoredRecentLists == {<<>>, SubSeq(TenFiles, 1, Len(TenFiles) - 1), TenFiles}

\* the paths added: the newest, a middle and the oldest of the ten, and two
\* that are not among them
RecentPaths == {"f1.pxl", "f5.pxl", "f10.pxl", "g1.pxl", "g2.pxl"}

\* history: the list at the first call and the paths added since, in call order
RecentCalls(stored, added) == [op |-> "add_recent_file", stored |-> stored, added |-> added]

InitRecent ==
    /\ layout = Layout_new
    /\ canvas = LayoutCanvas_new(Layout_new)
    /\ drag_mode = DragNone
    /\ drag_start_pos = ZeroPos
    /\ drag_image_initial_pos = ZeroPos
    /\ drag_image_initial_size = ZeroPos
    /\ maintain_aspect_ratio = TRUE
    /\ is_modified = FALSE
    /\ next_uuid = 0
    /\ moves = 0
    /\ button_down = FALSE
    /\ presses = 0
    /\ injected = 0
    /\ recent_files \in StoredRecentLists
    /\ call = RecentCalls(recent_files, <<>>)
    /\ samples = NoSamples
    /\ print_status = PrintStatus_Idle
    /\ selected_printer = None
    /\ printers = <<>>
    /\ tasks = {DiscoverTask}
    /\ log = NoLog
    /\ bitmap = None
    /\ zoom = R(1)
    /\ current_file = None
    /\ disk = NoFiles

\* config_manager.add_recent_file(&mut preferences, path)
CallAddRecentFile ==
    \E path \in RecentPaths :
        /\ injected < MaxRecentCalls
        /\ injected' = injected + 1
        /\ recent_files' = add_recent_file(recent_files, path)
        /\ call' = RecentCalls(call.stored, Append(call.added, path))
        /\ UNCHANGED <<layout, canvas, session_vars, next_uuid, moves, samples,
                       button_down, presses, print_vars, zoom, current_file, disk>>

NextRecent == CallAddRecentFile

SpecRecent == InitRecent /\ [][NextRecent]_vars

-----------------------------------------------------------------------------
(* The size fields of the image tools, with the aspect lock switched on and
   off and the image turned in between *)

\* texts typed into the width and height fields: not a number, 0, 40 and 80
SizeTexts == {None, Some(R(0)), Some(R(40)), Some(R(80))}

SizeImageWidthChanged ==
    \E value \in SizeTexts :
        /\ ImageWidthChanged(value)
        /\ call' = Extend("ImageWidthChanged")
        /\ ToolStep
        /\ UNCHANGED file_vars

SizeImageHeightChanged ==
    \E value \in SizeTexts :
        /\ ImageHeightChanged(value)
        /\ call' = Extend("ImageHeightChanged")
        /\ ToolStep
        /\ UNCHANGED file_vars

SizeMaintainAspectRatio ==
    /\ MaintainAspectRatio(~maintain_aspect_ratio)
    /\ call' = NoCall
    /\ ToolStep
    /\ UNCHANGED file_vars

NextSize ==
    \/ ToolsImageFilesSelected
    \/ ToolsThumbnailClicked
    \/ ToolsRotateImageCW
    \/ SizeImageWidthChanged
    \/ SizeImageHeightChanged
    \/ SizeMaintainAspectRatio

SpecSize == Init /\ [][NextSize]_vars

-----------------------------------------------------------------------------
(* Project files: the File buttons, the dialogs and reads the runtime resolves,
   and one page edit, in any order; a file holds the Layout last saved to it *)

\* File-button and edit messages in one run
MaxFileSteps == 5

\* recent_files of the preferences the session starts with
StoredRecent == {<<>>, <<"b.pxl">>}

\* the project files that exist when the session starts
StoredFiles == {NoFiles, [NoFiles EXCEPT !["b.pxl"] = Some(StoredLayout(R(0)))]}

\* history: the message of the last step, the file the step wrote or tried to
\* write, and the file of the last successful load that no save to a file and
\* no NewLayout has followed
FileCall(op, target, loaded) == [op |-> op, target |-> target, loaded |-> loaded]

InitFiles ==
    /\ layout = Layout_new
    /\ canvas = LayoutCanvas_new(Layout_new)
    /\ drag_mode = DragNone
    /\ drag_start_pos = ZeroPos
    /\ drag_image_initial_pos = ZeroPos
    /\ drag_image_initial_size = ZeroPos
    /\ maintain_aspect_ratio = TRUE
    /\ is_modified = FALSE
    /\ next_uuid = 0
    /\ moves = 0
    /\ button_down = FALSE
    /\ presses = 0
    /\ injected = 0
    /\ call = FileCall("-", None, None)
    /\ samples = NoSamples
    /\ print_status = PrintStatus_Idle
    /\ selected_printer = None
    /\ printers = <<>>
    /\ tasks = {DiscoverTask}
    /\ log = NoLog
    /\ bitmap = None
    /\ zoom = R(1)
    /\ current_file = None
    /\ recent_files \in StoredRecent
    /\ disk \in StoredFiles

\* what no file message and no delivery changes
FileRest ==
    UNCHANGED <<button_down, presses, print_status, selected_printer, printers, log,
                bitmap, zoom>>

\* a button of the view is pressed
FileStep ==
    /\ injected < MaxFileSteps
    /\ injected' = injected + 1
    /\ FileRest

FileOrientationToggled ==
    /\ OrientationToggled
    /\ call' = FileCall("OrientationToggled", None, call.loaded)
    /\ FileStep
    /\ UNCHANGED <<tasks, file_vars>>

FileNewLayout ==
    /\ NewLayout
    /\ call' = FileCall("NewLayout", None, None)
    /\ FileStep
    /\ UNCHANGED <<tasks, recent_files, disk>>

SendSaveLayoutClicked ==
    \E written \in BOOLEAN :
        /\ SaveLayoutClicked(written)
        /\ call' = FileCall("SaveLayoutClicked", current_file,
                            IF current_file # None /\ written THEN None ELSE call.loaded)
        /\ FileStep

SendSaveLayoutAs ==
    /\ SaveLayoutAs(tasks)
    /\ call' = FileCall("SaveLayoutAs", None, call.loaded)
    /\ FileStep

SendOpenLayoutClicked ==
    /\ OpenLayoutClicked
    /\ call' = FileCall("OpenLayoutClicked", None, call.loaded)
    /\ FileStep

\* the Recent menu has one button per entry of recent_files
SendOpenRecentFile ==
    \E i \in 1..Len(recent_files) :
        /\ OpenRecentFile(recent_files[i])
        /\ call' = FileCall("OpenRecentFile", None, call.loaded)
        /\ FileStep

\* Task::done(SaveLayoutAs) resolves
SaveAsResolves ==
    /\ SaveAsTask \in tasks
    /\ SaveLayoutAs(Resolved(tasks, SaveAsTask))
    /\ call' = FileCall("SaveLayoutAs", None, call.loaded)
    /\ UNCHANGED injected
    /\ FileRest

\* the Save dialog closes, with a file name or cancelled
SaveDialogResolves ==
    \E path \in {None} \cup {Some(p) : p \in Paths}, written \in BOOLEAN :
        /\ SaveDialogTask \in tasks
        /\ LayoutSavePathSelected(path, written)
        /\ tasks' = Resolved(tasks, SaveDialogTask)
        /\ call' = FileCall("LayoutSavePathSelected", path,
                            IF path # None /\ written THEN None ELSE call.loaded)
        /\ UNCHANGED injected
        /\ FileRest

\* the Open dialog closes, with a file or cancelled
OpenDialogResolves ==
    \E path \in {None} \cup {Some(p) : p \in Paths} :
        /\ OpenDialogTask \in tasks
        /\ LayoutOpenPathSelected(Resolved(tasks, OpenDialogTask), path)
        /\ call' = FileCall("LayoutOpenPathSelected", None, call.loaded)
        /\ UNCHANGED injected
        /\ FileRest

\* the read of a project file resolves and LayoutLoaded is handled
LoadResolves ==
    \E path \in Paths :
        LET result == load_layout(disk, path)
        IN  /\ LoadTask(path) \in tasks
            /\ LayoutLoaded(result)
            /\ tasks' = Resolved(tasks, LoadTask(path))
            /\ call' = FileCall("LayoutLoaded", None,
                                IF result.ok THEN Some(path) ELSE call.loaded)
            /\ UNCHANGED injected
            /\ FileRest

NextFiles ==
    \/ FileOrientationToggled
    \/ FileNewLayout
    \/ SendSaveLayoutClicked
    \/ SendSaveLayoutAs
    \/ SendOpenLayoutClicked
    \/ SendOpenRecentFile
    \/ SaveAsResolves
    \/ SaveDialogResolves
    \/ OpenDialogResolves
    \/ LoadResolves

SpecFiles == InitFiles /\ [][NextFiles]_vars

-----------------------------------------------------------------------------
(* Presses on the canvas at several zoom levels: images are added, selected by
   their thumbnails and resized by the width field, the zoom buttons are
   pressed, and the left button goes down on and around the handles and the
   centre of every image *)

\* messages and mouse events in one run
MaxPressSteps == 5

\* zoom_level of the preferences the session starts with
StoredPressZooms == {R(1), R(5), <<1, 10>>}

\* the zoom buttons are pressed at these session zooms
ZoomBases == StoredPressZooms \cup {<<1, 2>>}

\* the width typed into the width field, in mm
TypedWidth == R(40)

\* distances in pixels between the cursor and the point it is aimed at
PressOffsets == {<<0, 0>>, <<-7, 7>>, <<8, 0>>}

\* the corners, the edge midpoints and the centre of the box of img, in pixels
BoxPoints(c, img) ==
    {<<mm_to_pixels(c, RAdd(img.x_mm, RDiv(RMul(R(i), img.width_mm), R(2)))),
       mm_to_pixels(c, RAdd(img.y_mm, RDiv(RMul(R(j), img.height_mm), R(2))))>> :
        i \in 0..2, j \in 0..2}

\* cursor positions of the press: on and around the box points of every image,
\* a point of the page no image of a session reaches, and one off the canvas
PressPoints(c) ==
    UNION {{<<RAdd(point[1], R(offset[1])), RAdd(point[2], R(offset[2]))>> :
                point \in BoxPoints(c, c.layout.images[i]), offset \in PressOffsets} :
           i \in 1..Len(c.layout.images)}
    \cup {<<R(1), R(1)>>, OffCanvas}

InitPress ==
    /\ layout = Layout_new
    /\ canvas = LayoutCanvas_new(Layout_new)
    /\ drag_mode = DragNone
    /\ drag_start_pos = ZeroPos
    /\ drag_image_initial_pos = ZeroPos
    /\ drag_image_initial_size = ZeroPos
    /\ maintain_aspect_ratio = TRUE
    /\ is_modified = FALSE
    /\ next_uuid = 0
    /\ moves = 0
    /\ button_down = FALSE
    /\ presses = 0
    /\ injected = 0
    /\ call = NoCall
    /\ samples = NoSamples
    /\ print_status = PrintStatus_Idle
    /\ selected_printer = None
    /\ printers = <<>>
    /\ tasks = {DiscoverTask}
    /\ log = NoLog
    /\ bitmap = None
    /\ zoom \in StoredPressZooms
    /\ current_file = None
    /\ recent_files = <<>>
    /\ disk = NoFiles

PressStep ==
    /\ injected < MaxPressSteps
    /\ injected' = injected + 1
    /\ UNCHANGED <<print_vars, file_vars>>

PressImageFilesSelected ==
    \E paths \in {<<"wide.png">>, <<"wide.png", "wide.png">>} :
        /\ ImageFilesSelected(paths)
        /\ call' = NoCall
        /\ PressStep
        /\ UNCHANGED <<button_down, presses, zoom>>

PressThumbnailClicked ==
    \E i \in 1..Len(layout.images) :
        /\ ~button_down
        /\ ThumbnailClicked(layout.images[i].id)
        /\ call' = NoCall
        /\ PressStep
        /\ UNCHANGED <<button_down, presses, zoom>>

\* the width field is shown while an image is selected
PressImageWidthChanged ==
    /\ ~button_down
    /\ layout.selected_image_id # None
    /\ ImageWidthChanged(Some(TypedWidth))
    /\ call' = NoCall
    /\ PressStep
    /\ UNCHANGED <<button_down, presses, zoom>>

PressZoom ==
    /\ ~button_down
    /\ zoom \in ZoomBases
    /\ ZoomIn \/ ZoomOut \/ ZoomReset \/ ZoomToFit
    /\ call' = NoCall
    /\ PressStep
    /\ UNCHANGED <<button_down, presses>>

\* the left button goes down on the canvas element or beside it
PressButtonPressed ==
    \E cursor \in PressPoints(canvas) :
        /\ ~button_down
        /\ ButtonPressed(cursor)
        /\ button_down' = TRUE
        /\ call' = [Call("ButtonPressed", None) EXCEPT !.point = Some(cursor)]
        /\ PressStep
        /\ UNCHANGED <<presses, zoom>>

PressButtonReleased ==
    \E cursor \in {<<R(1), R(1)>>, OffCanvas} :
        /\ button_down
        /\ ButtonReleased(cursor)
        /\ button_down' = FALSE
        /\ call' = NoCall
        /\ PressStep
        /\ UNCHANGED <<presses, zoom>>

NextPress ==
    \/ PressImageFilesSelected
    \/ PressThumbnailClicked
    \/ PressImageWidthChanged
    \/ PressZoom
    \/ PressButtonPressed
    \/ PressButtonReleased

SpecPress == InitPress /\ [][NextPress]_vars

-----------------------------------------------------------------------------
(* The page settings: a session that starts from the settings of the last
   successful print, and the paper size, orientation, margin and borderless
   controls used in any order *)

\* page messages in one run
MaxPageSteps == 4

\* a Letter page turned to Landscape with side margins of 120 mm, as a session
\* can make it: PaperSizeSelected, OrientationToggled, four margin edits
WidePage ==
    [Page_default EXCEPT !.width_mm = to_dimensions("Letter")[2],
                         !.height_mm = to_dimensions("Letter")[1],
                         !.paper_size = "Letter", !.orientation = "Landscape",
                         !.margin_top_mm = R(10), !.margin_bottom_mm = R(10),
                         !.margin_left_mm = R(120), !.margin_right_mm = R(120)]

\* last_print_settings of the preferences the session starts with: none, those
\* of a print of the default page, those of a print of the wide page
StoredPrintSettings ==
    {NoPrintSettings, PrintSettingsOf(Page_default), PrintSettingsOf(WidePage)}

\* margin texts: not a number, 10, 100, and 200, more than half of any page
PageMarginTexts == {None, Some(R(10)), Some(R(100)), Some(R(200))}

InitPage ==
    /\ layout \in {RestoredLayout(last_print) : last_print \in StoredPrintSettings}
    /\ canvas = LayoutCanvas_new(layout)
    /\ drag_mode = DragNone
    /\ drag_start_pos = ZeroPos
    /\ drag_image_initial_pos = ZeroPos
    /\ drag_image_initial_size = ZeroPos
    /\ maintain_aspect_ratio = TRUE
    /\ is_modified = FALSE
    /\ next_uuid = 0
    /\ moves = 0
    /\ button_down = FALSE
    /\ presses = 0
    /\ injected = 0
    /\ call = NoCall
    /\ samples = NoSamples
    /\ print_status = PrintStatus_Idle
    /\ selected_printer = None
    /\ printers = <<>>
    /\ tasks = {DiscoverTask}
    /\ log = NoLog
    /\ bitmap = None
    /\ zoom = R(1)
    /\ current_file = None
    /\ recent_files = <<>>
    /\ disk = NoFiles

PageStep ==
    /\ injected < MaxPageSteps
    /\ injected' = injected + 1
    /\ call' = NoCall
    /\ UNCHANGED <<button_down, presses, rest_vars>>

PagePaperSizeSelected ==
    \E paper_size \in {"A4", "A5", "Letter"} : PaperSizeSelected(paper_size) /\ PageStep

PageOrientationToggled == OrientationToggled /\ PageStep

PageMarginTopChanged == \E value \in PageMarginTexts : MarginTopChanged(value) /\ PageStep

PageMarginBottomChanged ==
    \E value \in PageMarginTexts : MarginBottomChanged(value) /\ PageStep

PageMarginLeftChanged ==
    \E value \in PageMarginTexts : MarginLeftChanged(value) /\ PageStep

PageMarginRightChanged ==
    \E value \in PageMarginTexts : MarginRightChanged(value) /\ PageStep

PageBorderlessToggled == \E enabled \in BOOLEAN : BorderlessToggled(enabled) /\ PageStep

NextPage ==
    \/ PagePaperSizeSelected
    \/ PageOrientationToggled
    \/ PageMarginTopChanged
    \/ PageMarginBottomChanged
    \/ PageMarginLeftChanged
    \/ PageMarginRightChanged
    \/ PageBorderlessToggled

SpecPage == InitPage /\ [][NextPage]_vars

-----------------------------------------------------------------------------
(* Properties *)

ImageIds(l) == {l.images[i].id : i \in 1..Len(l.images)}

\* C1: after any sequence of add_image and remove_image calls on a Layout that
\* started empty, the image at position i of the vector has z_index i
\* (counting from 0).
ZIndexIsPosition ==
    \A i \in 1..Len(layout.images) : layout.images[i].z_index = i - 1

\* C1 witness: exactly one image was removed, it stood before the last image
\* that is left, and the call just made was remove_image for its id
ZIndexIsPosition_witness ==
    /\ call.op = "remove_image"
    /\ next_uuid = MaxLayoutImages
    /\ Len(layout.images) = next_uuid - 1
    /\ call.id[1] \notin ImageIds(layout)
    /\ call.id[1] < layout.images[Len(layout.images)].id

\* C2: in every state of the session the selection is None or the id of an
\* image of the layout.
SelectionIsAnImage ==
    \/ layout.selected_image_id = None
    \/ layout.selected_image_id[1] \in ImageIds(layout)

\* C2 witness: two images were added, the second one was selected and deleted,
\* and nothing is selected
SelectionIsAnImage_witness ==
    /\ next_uuid = 2
    /\ ImageIds(layout) = {1}
    /\ layout.selected_image_id = None
    /\ is_modified

\* C3: remove_image(id) leaves the selection None when id was the selected
\* image, and leaves the selection as it was for any other id, present or not.
RemoveClearsOwnSelectionOnly ==
    call.op = "remove_image" =>
        layout.selected_image_id =
            IF call.selected_before = call.id THEN None ELSE call.selected_before

\* C3 witness: the selected image was removed while another image stays
RemoveClearsOwnSelectionOnly_witness ==
    /\ call.op = "remove_image"
    /\ call.selected_before = call.id
    /\ call.id # None
    /\ layout.selected_image_id = None
    /\ layout.images # <<>>

\* the unrotated box of an image, sides included
InBox(img, point) ==
    /\ RLe(img.x_mm, point[1]) /\ RLe(point[1], RAdd(img.x_mm, img.width_mm))
    /\ RLe(img.y_mm, point[2]) /\ RLe(point[2], RAdd(img.y_mm, img.height_mm))

Unrotated(l) ==
    [l EXCEPT !.images = [i \in 1..Len(l.images) |->
                             [l.images[i] EXCEPT !.rotation_degrees = R(0)]]]

Selected(l) ==
    IF l.selected_image_id = None THEN None
    ELSE get_image(l, l.selected_image_id[1])

\* a pointer move handled while Dragging-Resize with the selected image present
ResizeStep ==
    /\ moves' = moves + 1
    /\ drag_mode.kind = "Resize"
    /\ Selected(layout) # None

\* C5: for every handle, either setting of the aspect lock and every pointer
\* delta, the resized image is at least 10 mm wide and 10 mm high after a
\* pointer move handled while Dragging-Resize.
ResizeKeepsMinimumSize ==
    [][ResizeStep =>
          LET img == get_image(layout', layout.selected_image_id[1])[1]
          IN  /\ RLe(R(MinSize), img.width_mm)
              /\ RLe(R(MinSize), img.height_mm)]_vars

\* C6: with the aspect lock on, after any pointer move on a corner handle the
\* image's width / height equals init_w / init_h, the ratio captured when the
\* resize began.
LockedCornerKeepsRatio ==
    [][(ResizeStep /\ drag_mode.handle \in Corners /\ maintain_aspect_ratio) =>
          LET img == get_image(layout', layout.selected_image_id[1])[1]
          IN  RDiv(img.width_mm, img.height_mm)
                = RDiv(drag_image_initial_size[1], drag_image_initial_size[2])]_vars

\* C6 witness: a locked corner resize has changed the image's width to a value
\* above the minimum
LockedCornerKeepsRatio_witness ==
    /\ drag_mode.kind = "Resize"
    /\ drag_mode.handle \in Corners
    /\ maintain_aspect_ratio
    /\ moves >= 1
    /\ Selected(layout) # None
    /\ Selected(layout)[1].width_mm # drag_image_initial_size[1]
    /\ RLt(R(MinSize), Selected(layout)[1].width_mm)

\* C7: a pointer move handled while Dragging-Resize changes x, y, width and
\* height of the resized image only: every other field of it, the order of the
\* list and every other image stay as they were.
ResizeChangesBoundsOnly ==
    [][ResizeStep =>
          /\ Len(layout'.images) = Len(layout.images)
          /\ \A i \in 1..Len(layout.images) :
                LET before == layout.images[i]
                    after == layout'.images[i]
                IN  IF Some(before.id) = layout.selected_image_id
                    THEN after = [before EXCEPT !.x_mm = after.x_mm,
                                                !.y_mm = after.y_mm,
                                                !.width_mm = after.width_mm,
                                                !.height_mm = after.height_mm]
                    ELSE after = before]_vars

\* C7 witness: one of two images has been resized and the other has the size
\* it was created with
ResizeChangesBoundsOnly_witness ==
    /\ drag_mode.kind = "Resize"
    /\ moves >= 1
    /\ Len(layout.images) = 2
    /\ Selected(layout) # None
    /\ Selected(layout)[1].width_mm # R(100)
    /\ \E i \in 1..2 : /\ Some(layout.images[i].id) # layout.selected_image_id
                        /\ layout.images[i].width_mm = R(100)

\* C8: during Dragging-Move the image pressed on stands, after every pointer
\* move, at initial_pos + (p_k - p_1), p_1 being the first pointer move after
\* the press and p_k the latest; the first move leaves it at initial_pos.
MoveFollowsPointer ==
    [][(/\ moves' = moves + 1
        /\ drag_mode = DragMove
        /\ Selected(layout) # None
        /\ samples.image = layout.selected_image_id) =>
          LET img == get_image(layout', layout.selected_image_id[1])[1]
              first == samples'.first[1]
              latest == samples'.latest[1]
          IN  /\ img.x_mm = RAdd(drag_image_initial_pos[1], RSub(latest[1], first[1]))
              /\ img.y_mm = RAdd(drag_image_initial_pos[2], RSub(latest[2], first[2]))]_vars

\* C9: once the left button has been released the session is Idle, so that
\* the pointer moves that follow move or resize nothing.
ReleaseEndsDrag == ~button_down => drag_mode = DragNone

\* C10: a move or resize update that names an image id which is not in the
\* layout (MouseMoved while dragging with such a selection, ImageMoved,
\* ImageResized) leaves every image as it was, in the layout and on the canvas.
AbsentIdChangesNothing ==
    [][(\/ injected' = injected + 1
        \/ /\ moves' = moves + 1
           /\ Selected(layout) = None) =>
          /\ layout'.images = layout.images
          /\ canvas'.layout.images = canvas.layout.images]_vars

\* C10 witness: with images in the layout, a pointer move with a non-zero
\* delta was handled while Dragging-Move with a selection that names no image,
\* and the image pressed on still stands where it stood at the press
AbsentIdChangesNothing_witness ==
    /\ injected >= 1
    /\ drag_mode = DragMove
    /\ moves >= 2
    /\ layout.selected_image_id # None
    /\ Selected(layout) = None
    /\ samples.first # None
    /\ samples.first # Some(ZeroPos)
    /\ samples.latest # samples.first
    /\ get_image(layout, samples.image[1]) # None
    /\ get_image(layout, samples.image[1])[1].x_mm = drag_image_initial_pos[1]

\* C11: a print job started by PrintClicked never delivers PrintJobCompleted
\* more than once, and every job that was started eventually has delivered it
\* exactly once.
DeliversOnce ==
    /\ [](\A n \in 1..Len(log.jobs) : log.jobs[n].delivered <= 1)
    /\ \A n \in 1..MaxJobs :
           (Len(log.jobs) >= n) ~> (Len(log.jobs) >= n /\ log.jobs[n].delivered = 1)

\* both jobs of a run have delivered, the first one a failure or a job id
DeliversOnce_witness ==
    /\ Len(log.jobs) = 2
    /\ \A n \in 1..2 : log.jobs[n].delivered = 1
    /\ tasks = {}

StartsJob == SendPrintClicked /\ tasks' # tasks

\* C13: the PrintJobCompleted of a failed job sets print_status to Failed with
\* the error of the job and changes nothing else of the session, the Layout and
\* the drag state included; and once a failure has been dismissed, a
\* PrintClicked with images and a printer starts another job.
FailedJobChangesStatusOnly ==
    /\ [][\A task \in tasks :
              (task.kind = "print" /\ task \notin tasks'
                  /\ log'.jobs[task.n].ok = Some(FALSE)) =>
                  /\ \E env \in PrintEnvs :
                         LET result == execute_print_job(task.job[1], env)
                         IN  ~result.ok /\ print_status' = PrintStatus_Failed(result.value)
                  /\ UNCHANGED <<core_vars, selected_printer, printers>>]_vars
    /\ []((/\ \E n \in 1..Len(log.jobs) : log.jobs[n].ok = Some(FALSE)
           /\ print_status = PrintStatus_Idle
           /\ layout.images # <<>>
           /\ selected_printer # None
           /\ Len(log.jobs) < MaxJobs) => ENABLED StartsJob)

\* the only job so far has failed and the failure was dismissed: the session is
\* Idle again with its images and its printer
FailedJobChangesStatusOnly_witness ==
    /\ Len(log.jobs) = 1
    /\ log.jobs[1].ok = Some(FALSE)
    /\ print_status = PrintStatus_Idle
    /\ layout.images # <<>>
    /\ selected_printer # None

\* C14: a discovery that failed because the spooler is unavailable never
\* leaves the session in the state a successful discovery of zero printers
\* leaves it in: the two outcomes can be told apart from the session.
DiscoveryFailureIsVisible ==
    [][(log.discovery = "pending" /\ log'.discovery = "unavailable") =>
          <<printers', selected_printer', print_status', layout', canvas'>> #
              <<<<>>, PrinterChoice(<<>>, selected_printer), print_status, layout, canvas>>]_vars

\* the ids of a list of images or overlays, in order
IdsOf(items) == [i \in 1..Len(items) |-> items[i].id]

\* the images whose source file opens and decodes, in order
Decodable_images(images) ==
    LET Loads(img) == Decodes(img.path)
    IN  SelectSeq(images, Loads)

\* C15: an image whose source cannot be decoded never aborts the operation.
\* The rasterizer returns a bitmap with an overlay for every decodable image
\* of the Layout, in order, and none for the others; the canvas draw shows
\* every image of its Layout, the placeholder (no handle) exactly for the
\* images whose source does not decode.
UndecodableImageIsSkipped ==
    /\ bitmap # None =>
           IdsOf(bitmap[1].img.overlays) = IdsOf(Decodable_images(layout.images))
    /\ canvas.cache # None =>
           LET frame == canvas.cache[1]
           IN  /\ IdsOf(frame.shown) = IdsOf(frame.layout.images)
               /\ \A i \in 1..Len(frame.shown) :
                      (frame.shown[i].handle = None) <=>
                          ~Decodes(frame.layout.images[i].path)

\* a Layout whose first image does not decode and whose second does, rasterized
\* and drawn: one overlay, one placeholder, one image
UndecodableImageIsSkipped_witness ==
    /\ Len(layout.images) = 2
    /\ ~Decodes(layout.images[1].path)
    /\ Decodes(layout.images[2].path)
    /\ bitmap # None
    /\ Len(bitmap[1].img.overlays) = 1
    /\ canvas.cache # None
    /\ canvas.cache[1].shown[1].handle = None
    /\ canvas.cache[1].shown[2].handle # None

\* round(mm / 25.4 * dpi), halves away from zero, for mm >= 0
RoundPx(mm, dpi) ==
    (2 * mm[1] * MmPerInch[2] * dpi + mm[2] * MmPerInch[1])
        \div (2 * mm[2] * MmPerInch[1])

\* C16: the bitmap is round(width_mm / 25.4 * dpi) wide and
\* round(height_mm / 25.4 * dpi) high, and every image is composited from the
\* rounded pixel of its top-left corner to the rounded pixel of its
\* bottom-right corner: for A4 at 300 DPI 2480 x 3508, and (591, 591) to
\* (1772, 1772) for 100 x 100 mm at (50, 50).
BitmapSizeIsRounded ==
    bitmap # None =>
        LET dpi == bitmap[1].dpi
            img == bitmap[1].img
        IN  /\ img.width_px = RoundPx(layout.page.width_mm, dpi)
            /\ img.height_px = RoundPx(layout.page.height_mm, dpi)
            /\ \A i \in 1..Len(img.overlays) :
                   LET o == img.overlays[i]
                       placed == get_image(layout, o.id)[1]
                   IN  /\ o.x_px = RoundPx(placed.x_mm, dpi)
                       /\ o.y_px = RoundPx(placed.y_mm, dpi)
                       /\ o.x_px + o.w_px =
                              RoundPx(RAdd(placed.x_mm, placed.width_mm), dpi)
                       /\ o.y_px + o.h_px =
                              RoundPx(RAdd(placed.y_mm, placed.height_mm), dpi)

\* about ten values spread over lo..hi-1, both ends included
Spread(lo, hi) ==
    {v \in lo..(hi - 1) : (v - lo) % (1 + (hi - lo) \div 8) = 0 \/ v = hi - 1}

\* pixels spread over the pixel box of an image at a resolution
BoxPixels(placed, dpi) ==
    LET x == MmToPx(placed.x_mm, dpi)
        y == MmToPx(placed.y_mm, dpi)
    IN  Spread(x, x + MmToPx(placed.width_mm, dpi))
            \X Spread(y, y + MmToPx(placed.height_mm, dpi))

\* a decodable image without transparency
Solid(placed) == Decodes(placed.path) /\ placed.opacity = R(1)

\* the pixel lies in the pixel box of the image, inside the bitmap
InPixelBox(img, placed, dpi, p) ==
    /\ 0 <= p[1] /\ p[1] < img.width_px /\ 0 <= p[2] /\ p[2] < img.height_px
    /\ MmToPx(placed.x_mm, dpi) <= p[1]
    /\ p[1] < MmToPx(placed.x_mm, dpi) + MmToPx(placed.width_mm, dpi)
    /\ MmToPx(placed.y_mm, dpi) <= p[2]
    /\ p[2] < MmToPx(placed.y_mm, dpi) + MmToPx(placed.height_mm, dpi)

KeyRotationIsBucket ==
    \A i, j \in 1..Len(layout.images) :
        LET a == layout.images[i]
            b == layout.images[j]
        IN  /\ TransformKey(a).rotation_degrees \in {0, 90, 180, 270}
            /\ (/\ a.path = b.path
                /\ a.flip_horizontal = b.flip_horizontal
                /\ a.flip_vertical = b.flip_vertical
                /\ TransformKey(a).opacity_percent = TransformKey(b).opacity_percent
                /\ QuarterTurn(a.rotation_degrees) = QuarterTurn(b.rotation_degrees))
                   => TransformKey(a) = TransformKey(b)

\* b differs from a in id, x_mm, y_mm and z_index at most
SameLook(a, b) ==
    [b EXCEPT !.id = a.id, !.x_mm = a.x_mm, !.y_mm = a.y_mm, !.z_index = a.z_index] = a

\* the images looked up after a: a copy of it placed elsewhere under another
\* id, and the images of the Layout that look like it
Twins(a) ==
    {[a EXCEPT !.id = a.id + MaxRenderImages, !.x_mm = R(120), !.y_mm = R(10),
               !.z_index = a.z_index + 1]}
        \cup {layout.images[j] : j \in {k \in 1..Len(layout.images) :
                                           SameLook(a, layout.images[k])}}

\* the lookup of a on the caches of the canvas, then the lookup of b
SecondLookup(a, b) ==
    LET first == get_transformed_handle(canvas.image_cache, canvas.source_cache, a)
    IN  [first |-> first,
         second |-> get_transformed_handle(first.image_cache, first.source_cache, b)]

\* C19 as stated: two images that differ only in id, x_mm, y_mm and z_index
\* have the same key, get the same rendering, and the second lookup is a hit
\* that adds no cache entry.
SecondLookupIsAHit ==
    \A i \in 1..Len(layout.images) :
        LET a == layout.images[i]
        IN  \A b \in Twins(a) :
                LET both == SecondLookup(a, b)
                IN  /\ TransformKey(a) = TransformKey(b)
                    /\ both.second.handle = both.first.handle
                    /\ both.second.hit
                    /\ both.second.image_cache = both.first.image_cache

\* C19, amended: two images that differ only in id, x_mm, y_mm and z_index have
\* the same key and get the same result from get_transformed_handle; when the
\* source decodes the second lookup is a hit on the same rendering that adds
\* no cache entry, and when it does not both lookups return None and no
\* entry is ever added.
SameKeySharesRendering ==
    \A i \in 1..Len(layout.images) :
        LET a == layout.images[i]
        IN  \A b \in Twins(a) :
                LET both == SecondLookup(a, b)
                IN  /\ TransformKey(a) = TransformKey(b)
                    /\ both.second.handle = both.first.handle
                    /\ both.second.image_cache = both.first.image_cache
                    /\ IF Decodes(a.path)
                       THEN both.second.hit /\ both.second.handle # None
                       ELSE /\ both.first.handle = None
                            /\ both.first.image_cache = canvas.image_cache

\* the canvas has drawn two images that differ in id, position and z_index
\* only: both show the same handle and the cache holds one entry
SameKeySharesRendering_witness ==
    /\ Len(layout.images) = 2
    /\ layout.images[1].x_mm # layout.images[2].x_mm
    /\ SameLook(layout.images[1], layout.images[2])
    /\ canvas.cache # None
    /\ canvas.cache[1].shown[1].handle # None
    /\ canvas.cache[1].shown[1].handle = canvas.cache[1].shown[2].handle
    /\ Cardinality(canvas.image_cache) = 1


\* the fields of a Layout that the canvas shows: the images with all their
\* fields, the selection, the page size and the margins
Shown(l) ==
    [images |-> l.images, selected_image_id |-> l.selected_image_id,
     width_mm |-> l.page.width_mm, height_mm |-> l.page.height_mm,
     margin_top_mm |-> l.page.margin_top_mm,
     margin_bottom_mm |-> l.page.margin_bottom_mm,
     margin_left_mm |-> l.page.margin_left_mm,
     margin_right_mm |-> l.page.margin_right_mm]

\* C20: after any message that changes the image list, a field of an image,
\* the selection, the page size or the margins, the Layout copy of the canvas
\* equals the session Layout in those fields and the render cache of the canvas
\* is cleared; so geometry the canvas keeps was always drawn from a Layout that
\* equals the session Layout in those fields
CanvasFollowsSession ==
    /\ [][Shown(layout') # Shown(layout) =>
            Shown(canvas'.layout) = Shown(layout') /\ canvas'.cache = None]_vars
    /\ [](canvas.cache # None => Shown(canvas.cache[1].layout) = Shown(layout))

\* the canvas was drawn with an image, then a margin changed, and the canvas
\* holds the new Layout with its geometry cleared
CanvasFollowsSession_witness ==
    /\ canvas.image_cache # {}
    /\ canvas.cache = None
    /\ layout.images # <<>>
    /\ canvas.layout.images = layout.images
    /\ layout.page.margin_top_mm = R(10)
    /\ canvas.layout.page.margin_top_mm = R(10)

\* the last n tool messages were `ops`
LastOps(ops) ==
    /\ call.op = "tools"
    /\ Len(call.ops) >= Len(ops)
    /\ SubSeq(call.ops, Len(call.ops) - Len(ops) + 1, Len(call.ops)) = ops

\* the Layout before the last n tool messages
Before(n) == call.befores[Len(call.befores) - n + 1]

\* this step processed the tool message op
Processes(op) ==
    /\ injected' = injected + 1
    /\ call'.op = "tools"
    /\ call'.ops[Len(call'.ops)] = op

PageSides(l) == <<l.page.width_mm, l.page.height_mm, l.page.orientation>>

\* C21: OrientationToggled swaps page.width_mm and page.height_mm and flips the
\* orientation, leaving every field of every PlacedImage unchanged; applying it
\* twice restores the page width, height and orientation
OrientationToggleSwaps ==
    /\ [][Processes("OrientationToggled") =>
            /\ layout'.page.width_mm = layout.page.height_mm
            /\ layout'.page.height_mm = layout.page.width_mm
            /\ layout'.page.orientation # layout.page.orientation
            /\ layout'.page.orientation \in {"Portrait", "Landscape"}
            /\ layout'.images = layout.images]_vars
    /\ [](LastOps(<<"OrientationToggled", "OrientationToggled">>) =>
            PageSides(layout) = PageSides(Before(2)))

\* an A4 page with an image was toggled to 297 x 210 Landscape and back
OrientationToggleSwaps_witness ==
    /\ LastOps(<<"OrientationToggled", "OrientationToggled">>)
    /\ PageSides(Before(1)) = <<R(297), R(210), "Landscape">>
    /\ PageSides(layout) = <<R(210), R(297), "Portrait">>
    /\ layout.images # <<>>

\* width, height and rotation of the selected image, if there is one
Turn(l) ==
    IF selected_image(l) = None THEN None
    ELSE LET img == selected_image(l)[1]
         IN  Some(<<img.width_mm, img.height_mm, img.rotation_degrees>>)

\* the selected image of l has its rotation_degrees in [0, 360)
TurnInRange(l) ==
    Turn(l) # None /\ RLe(R(0), Turn(l)[1][3]) /\ RLt(Turn(l)[1][3], R(360))

\* what one clockwise turn makes of width, height and rotation
QuarterOn(turn) == <<turn[2], turn[1], RRem(RAdd(turn[3], R(90)), R(360))>>

\* C22 as stated: RotateImageCW swaps width_mm and height_mm of the selected
\* image and sets rotation_degrees to (rotation_degrees + 90) mod 360; four
\* applications return width, height and rotation to their original values, and
\* RotateImageCW followed by RotateImageCCW is the identity on those fields
RotateReturns ==
    /\ [][(Processes("RotateImageCW") /\ Turn(layout) # None) =>
            Turn(layout') = Some(QuarterOn(Turn(layout)[1]))]_vars
    /\ [](LastOps(<<"RotateImageCW", "RotateImageCW", "RotateImageCW", "RotateImageCW">>)
            => Turn(layout) = Turn(Before(4)))
    /\ [](LastOps(<<"RotateImageCW", "RotateImageCCW">>) => Turn(layout) = Turn(Before(2)))

\* C22, amended: the same for a selected image whose rotation_degrees lies
\* in [0, 360) before the first of the messages
RotateReturnsInRange ==
    /\ [][(Processes("RotateImageCW") /\ TurnInRange(layout)) =>
            Turn(layout') = Some(QuarterOn(Turn(layout)[1]))]_vars
    /\ []((/\ LastOps(<<"RotateImageCW", "RotateImageCW", "RotateImageCW", "RotateImageCW">>)
           /\ TurnInRange(Before(4)))
            => Turn(layout) = Turn(Before(4)))
    /\ []((LastOps(<<"RotateImageCW", "RotateImageCCW">>) /\ TurnInRange(Before(2)))
            => Turn(layout) = Turn(Before(2)))

\* a 100 x 50 image at 0 degrees was turned clockwise four times, through
\* 50 x 100 at 270 degrees
RotateReturnsInRange_witness ==
    /\ LastOps(<<"RotateImageCW", "RotateImageCW", "RotateImageCW", "RotateImageCW">>)
    /\ Turn(Before(4)) = Some(<<R(100), R(50), R(0)>>)
    /\ Turn(Before(1)) = Some(<<R(50), R(100), R(270)>>)
    /\ Turn(layout) = Some(<<R(100), R(50), R(0)>>)

InZoomRange(z) == RLe(MinZoom, z) /\ RLe(z, MaxZoom)

\* C23: in every session state, from startup with any stored zoom preference
\* and after any sequence of ZoomIn, ZoomOut, ZoomReset and ZoomToFit, the zoom
\* of the session and the zoom of the canvas both lie in [0.1, 5.0]
ZoomInRange == InZoomRange(zoom) /\ InZoomRange(canvas.zoom)

\* C24: the source cache evicts only explicitly: deleting an image removes the
\* path of that image from the source cache, NewLayout leaves the source cache
\* empty, and no other step removes an entry
SourceCacheEvictsExplicitly ==
    [][/\ (SendDeleteImageClicked /\ selected_image(layout) # None) =>
            selected_image(layout)[1].path \notin canvas'.source_cache
       /\ SendNewLayout => canvas'.source_cache = {}
       /\ (~SendDeleteImageClicked /\ ~SendNewLayout) =>
            canvas.source_cache \subseteq canvas'.source_cache]_vars

\* position and size of an image
Box(img) == <<img.x_mm, img.y_mm, img.width_mm, img.height_mm>>

\* C25: between the press that starts a drag on image A and the end of that
\* drag, whatever other messages are processed in between, a pointer move leaves
\* the position and size of every image other than A as they were, in the
\* session's Layout and in the canvas's copy
DragMovesOnlyItsImage ==
    [][(OnCursorMoved /\ samples.image # None) =>
          /\ Len(layout'.images) = Len(layout.images)
          /\ \A i \in 1..Len(layout.images) :
                layout.images[i].id # samples.image[1] =>
                    /\ Box(layout'.images[i]) = Box(layout.images[i])
                    /\ Box(canvas'.layout.images[i]) = Box(canvas.layout.images[i])]_vars

\* C26: after a successful load from file P, by Open or by Open Recent, the
\* next SaveLayoutClicked writes to P, never to a file that was current before
\* the load, and P is the path the load put at the front of recent_files
SaveGoesToLoadedFile ==
    /\ [][(SendSaveLayoutClicked /\ call.loaded # None) =>
            call'.target = call.loaded]_vars
    /\ []((call.op = "LayoutLoaded" /\ call.loaded # None) =>
            (recent_files # <<>> /\ recent_files[1] = call.loaded[1]))

\* the centre of a handle on the box of img, in mm
HandleCentre(img, handle) ==
    LET left == img.x_mm
        right == RAdd(img.x_mm, img.width_mm)
        top == img.y_mm
        bottom == RAdd(img.y_mm, img.height_mm)
        across == RAdd(img.x_mm, RDiv(img.width_mm, R(2)))
        down == RAdd(img.y_mm, RDiv(img.height_mm, R(2)))
    IN  CASE handle = "TopLeft" -> <<left, top>>
          [] handle = "TopRight" -> <<right, top>>
          [] handle = "BottomLeft" -> <<left, bottom>>
          [] handle = "BottomRight" -> <<right, bottom>>
          [] handle = "Top" -> <<across, top>>
          [] handle = "Bottom" -> <<across, bottom>>
          [] handle = "Left" -> <<left, down>>
          [] handle = "Right" -> <<right, down>>

\* the pixel point lies less than 8 px from the centre of the handle on both axes
InHitSquare(img, handle, point) ==
    LET centre == HandleCentre(img, handle)
        scale == RMul(PixelsPerMm, canvas.zoom)
    IN  /\ RLt(RAbs(RSub(point[1], RMul(centre[1], scale))), R(8))
        /\ RLt(RAbs(RSub(point[2], RMul(centre[2], scale))), R(8))

\* the handles of the image that was selected before the press whose hit squares
\* hold the point of the press
HandlesAt(point) ==
    IF call.selected_before = None \/ get_image(layout, call.selected_before[1]) = None
    THEN {}
    ELSE {handle \in Corners \cup Edges :
             InHitSquare(get_image(layout, call.selected_before[1])[1], handle, point)}

\* the images whose boxes hold the pixel point at the zoom of the canvas
ImagesAt(point) ==
    LET scale == RMul(PixelsPerMm, canvas.zoom)
    IN  {i \in 1..Len(layout.images) :
            LET img == layout.images[i]
            IN  /\ RLe(RMul(img.x_mm, scale), point[1])
                /\ RLe(point[1], RMul(RAdd(img.x_mm, img.width_mm), scale))
                /\ RLe(RMul(img.y_mm, scale), point[2])
                /\ RLe(point[2], RMul(RAdd(img.y_mm, img.height_mm), scale))}

\* the last step was a left press at a point of the canvas element
PressedAt(point) ==
    /\ call.op = "ButtonPressed"
    /\ call.point = Some(point)
    /\ position_in(canvas, layout, point) # None

\* the drag anchors are the position and size of img
AnchoredAt(img) ==
    /\ drag_image_initial_pos = <<img.x_mm, img.y_mm>>
    /\ drag_image_initial_size = <<img.width_mm, img.height_mm>>

\* C27: a left press on the canvas at a point inside the box of at least one
\* image and on no handle of the selected image selects the image with the
\* highest z_index among those under the pointer and starts a Move drag whose
\* anchors are that image's position and size; a press on empty canvas clears
\* the selection and leaves no drag
PressSelectsTopmost ==
    \A point \in PressPoints(canvas) :
        (PressedAt(point) /\ HandlesAt(point) = {}) =>
            IF ImagesAt(point) # {}
            THEN LET top == CHOOSE i \in ImagesAt(point) :
                                \A j \in ImagesAt(point) :
                                    layout.images[j].z_index <= layout.images[i].z_index
                 IN  /\ layout.selected_image_id = Some(layout.images[top].id)
                     /\ drag_mode = DragMove
                     /\ AnchoredAt(layout.images[top])
            ELSE /\ layout.selected_image_id = None
                 /\ drag_mode = DragNone

\* at half size the press went to a point inside the selected 40 x 20 mm image
\* and the 100 x 50 mm image above it, on no handle: the upper image was
\* selected for a move
PressSelectsTopmost_witness ==
    \E point \in PressPoints(canvas) :
        /\ PressedAt(point)
        /\ HandlesAt(point) = {}
        /\ Cardinality(ImagesAt(point)) = 2
        /\ call.selected_before = Some(1)
        /\ layout.selected_image_id = Some(2)
        /\ layout.images[1].width_mm = R(40)
        /\ canvas.zoom = <<1, 2>>
        /\ drag_mode = DragMove

\* C28 as stated: a left press within the hit square of a handle of the selected
\* image starts a Resize drag with that handle on the selected image, with its
\* position and size as anchors, and leaves the selection on it, whatever else
\* lies under the pointer and at every zoom level
PressOnHandleResizes ==
    \A point \in PressPoints(canvas) :
        PressedAt(point) =>
            \A handle \in HandlesAt(point) :
                /\ drag_mode = DragResize(handle)
                /\ layout.selected_image_id = call.selected_before
                /\ AnchoredAt(get_image(layout, call.selected_before[1])[1])

\* the first of the handles in the order the corners and then the edges are tried
FirstHandle(handles) ==
    LET order == <<"TopLeft", "TopRight", "BottomLeft", "BottomRight",
                   "Top", "Bottom", "Left", "Right">>
        first == CHOOSE i \in 1..Len(order) :
                    /\ order[i] \in handles
                    /\ \A j \in 1..(i - 1) : order[j] \notin handles
    IN  order[first]

\* C28, amended: the same, the handle being the first in the order TopLeft,
\* TopRight, BottomLeft, BottomRight, Top, Bottom, Left, Right among the handles
\* whose hit squares hold the point
PressOnHandleResizesFirst ==
    \A point \in PressPoints(canvas) :
        (PressedAt(point) /\ HandlesAt(point) # {}) =>
            /\ drag_mode = DragResize(FirstHandle(HandlesAt(point)))
            /\ layout.selected_image_id = call.selected_before
            /\ AnchoredAt(get_image(layout, call.selected_before[1])[1])

\* at zoom 5 the press went 7 px beside the BottomRight handle of the selected
\* 40 x 20 mm image, a point inside the 100 x 50 mm image above it
PressOnHandleResizesFirst_witness ==
    \E point \in PressPoints(canvas) :
        /\ PressedAt(point)
        /\ HandlesAt(point) = {"BottomRight"}
        /\ point # <<mm_to_pixels(canvas, R(90)), mm_to_pixels(canvas, R(70))>>
        /\ Cardinality(ImagesAt(point)) = 1
        /\ call.selected_before = Some(1)
        /\ layout.selected_image_id = Some(1)
        /\ canvas.zoom = R(5)
        /\ drag_mode = DragResize("BottomRight")

\* the corner of the box <<x, y, w, h>> opposite the one the handle sits on
OppositeCorner(handle, box) ==
    <<IF handle \in {"TopLeft", "BottomLeft"} THEN RAdd(box[1], box[3]) ELSE box[1],
      IF handle \in {"TopLeft", "TopRight"} THEN RAdd(box[2], box[4]) ELSE box[2]>>

\* the drag anchors as a box
AnchorBox ==
    <<drag_image_initial_pos[1], drag_image_initial_pos[2],
      drag_image_initial_size[1], drag_image_initial_size[2]>>

\* the image the drag in progress started on, if it is still in the Layout
Dragged == IF samples.image = None THEN None ELSE get_image(layout, samples.image[1])

\* C29: during a resize by a corner handle, with the aspect lock on or off and
\* whatever the pointer delta, the corner of the image opposite the dragged one
\* is where it was when the resize started
OppositeCornerStays ==
    (drag_mode.kind = "Resize" /\ drag_mode.handle \in Corners /\ Dragged # None) =>
        OppositeCorner(drag_mode.handle, Box(Dragged[1]))
            = OppositeCorner(drag_mode.handle, AnchorBox)

\* without the lock the TopLeft handle of a 100 x 50 mm image at (50, 50) was
\* dragged by (-150, -100) mm: the image is 250 x 150 mm at (-100, -50)
OppositeCornerStays_witness ==
    /\ drag_mode = DragResize("TopLeft")
    /\ ~maintain_aspect_ratio
    /\ samples.latest # None
    /\ Dragged # None
    /\ AnchorBox = <<R(50), R(50), R(100), R(50)>>
    /\ Box(Dragged[1]) = <<R(-100), R(-50), R(250), R(150)>>

\* C30: with the aspect lock off, a pointer move of a resize by the Left or the
\* Right handle leaves height_mm and y_mm of the image under drag at their
\* values of the start of the resize, and one by the Top or the Bottom handle
\* leaves width_mm and x_mm there
EdgeChangesOneDimension ==
    [][(/\ OnCursorMoved
        /\ moves' = moves + 1
        /\ drag_mode.kind = "Resize"
        /\ drag_mode.handle \in Edges
        /\ ~maintain_aspect_ratio
        /\ samples.image = layout.selected_image_id)
       => LET img == get_image(layout', layout.selected_image_id[1])[1]
          IN  IF drag_mode.handle \in {"Left", "Right"}
              THEN /\ img.height_mm = drag_image_initial_size[2]
                   /\ img.y_mm = drag_image_initial_pos[2]
              ELSE /\ img.width_mm = drag_image_initial_size[1]
                   /\ img.x_mm = drag_image_initial_pos[1]]_vars

\* without the lock the Top handle of a 100 x 50 mm image at (50, 50) was
\* dragged by (-150, -100) mm: the image is 100 x 150 mm at (50, -50)
EdgeChangesOneDimension_witness ==
    /\ drag_mode = DragResize("Top")
    /\ ~maintain_aspect_ratio
    /\ samples.latest # None
    /\ Dragged # None
    /\ samples.image = layout.selected_image_id
    /\ AnchorBox = <<R(50), R(50), R(100), R(50)>>
    /\ Box(Dragged[1]) = <<R(50), R(-50), R(100), R(150)>>

\* C31: in every session state the page's (width_mm, height_mm) is
\* paper_size.to_dimensions() when the orientation is Portrait and the swapped
\* pair when it is Landscape, at startup with the last print settings restored
\* and after PaperSizeSelected and OrientationToggled in any order
PageMatchesPaper ==
    LET sides == to_dimensions(layout.page.paper_size)
    IN  <<layout.page.width_mm, layout.page.height_mm>> =
            IF layout.page.orientation = "Portrait" THEN sides
            ELSE <<sides[2], sides[1]>>

\* C32: in every session state each margin is >= 0 and less than half of the
\* page dimension it is measured along, so that the printable area has positive
\* width and height, after any sequence of margin edits, paper-size changes,
\* orientation toggles and borderless toggles
MarginsFitPage ==
    LET page == layout.page
        Fits(margin, extent) == RLe(R(0), margin) /\ RLt(margin, RDiv(extent, R(2)))
    IN  /\ Fits(page.margin_top_mm, page.height_mm)
        /\ Fits(page.margin_bottom_mm, page.height_mm)
        /\ Fits(page.margin_left_mm, page.width_mm)
        /\ Fits(page.margin_right_mm, page.width_mm)
        /\ RLt(R(0), RSub(RSub(page.width_mm, page.margin_left_mm), page.margin_right_mm))
        /\ RLt(R(0), RSub(RSub(page.height_mm, page.margin_top_mm), page.margin_bottom_mm))

\* the handle is the rendering of img: its own quarter turn and flips, and an
\* alpha within one percent of full scale (plus the truncation of the cast)
\* of the alpha its own opacity gives
RendersOwnTransform(handle, img) ==
    /\ handle.path = img.path
    /\ handle.turn = QuarterTurn(img.rotation_degrees)
    /\ handle.flip_horizontal = img.flip_horizontal
    /\ handle.flip_vertical = img.flip_vertical
    /\ Abs(handle.alpha - Alpha(img.opacity)) <= 3

\* C33: the transform cache is transparent: for every image whose source
\* decodes, the handle get_transformed_handle returns on the caches of the
\* canvas, hit or miss, is the rendering of the source with that image's own
\* rotation bucket and flips and with an opacity within one percent of its
\* own; a hit never returns a rendering made with another bucket or flip state.
CacheIsTransparent ==
    \A i \in 1..Len(layout.images) :
        LET img == layout.images[i]
            got == get_transformed_handle(canvas.image_cache, canvas.source_cache, img)
        IN  Decodes(img.path) =>
                /\ got.handle # None
                /\ RendersOwnTransform(got.handle[1], img)

\* what a project file keeps of a Layout: the images with their fields and the
\* page with its paper size, orientation, sides and margins
Persisted(l) == [images |-> l.images, page |-> l.page]

\* C34: every processed message that changes the persisted Layout - the image
\* list, a field of an image (for a drag: once it is released), the paper size,
\* the orientation or a margin - leaves is_modified true; NewLayout, which
\* replaces the Layout by an empty one, is the exception.
ChangeSetsModified ==
    [][(/\ Persisted(layout') # Persisted(layout)
        /\ drag_mode' = DragNone
        /\ layout' # Layout_new)
            => is_modified']_vars

\* the selected images of l and m have the same width : height ratio
SameAspect(l, m) ==
    LET a == selected_image(l)[1]
        b == selected_image(m)[1]
    IN  RMul(a.width_mm, b.height_mm) = RMul(b.width_mm, a.height_mm)

\* C35: with maintain_aspect_ratio on, ImageWidthChanged and ImageHeightChanged
\* leave the selected image with the width_mm : height_mm ratio it had before
\* the edit, whatever its rotation.
SizeFieldsKeepAspect ==
    [][((Processes("ImageWidthChanged") \/ Processes("ImageHeightChanged"))
            /\ maintain_aspect_ratio
            /\ selected_image(layout) # None)
        => SameAspect(layout, layout')]_vars

\* the print jobs handed to the runtime that have not reported their outcome
InFlight == {task \in tasks : task.kind = "print"}

\* C36: at most one print job is in flight: a PrintClicked starts a job only
\* when the Layout has an image and a printer is selected, and only when no
\* job that was started earlier is still to report its outcome.
OneJobInFlight ==
    [][StartsJob =>
           /\ layout.images # <<>>
           /\ selected_printer # None
           /\ InFlight = {}]_vars

\* the <n> of "request id is <printer>-<n> (...)": the last piece of the
\* fourth word
JobNumber(stdout) == stdout[4].parts[Len(stdout[4].parts)]

\* C37: when the spooler accepts a job and prints "request id is
\* <printer>-<n> (...)", the job id the session receives with the Completed
\* status is the job number <n> of that request id.
SubmitReturnsJobNumber ==
    print_status.kind = "Completed" => print_status.text = <<JobNumber(LpStdout)>>

\* px is mm / 25.4 * dpi cut off at the decimal point: the whole number with
\* px <= mm / 25.4 * dpi < px + 1 (0 for a negative length)
IsTruncation(px, mm, dpi) ==
    IF mm[1] < 0 THEN px = 0
    ELSE /\ px * MmPerInch[1] * mm[2] <= mm[1] * MmPerInch[2] * dpi
         /\ mm[1] * MmPerInch[2] * dpi < (px + 1) * MmPerInch[1] * mm[2]

\* the page of the session Layout on each paper size, upright and on its side
PagesOf(page) ==
    UNION {{[page EXCEPT !.paper_size = paper_size,
                         !.width_mm = to_dimensions(paper_size)[1],
                         !.height_mm = to_dimensions(paper_size)[2]],
            [page EXCEPT !.paper_size = paper_size, !.orientation = "Landscape",
                         !.width_mm = to_dimensions(paper_size)[2],
                         !.height_mm = to_dimensions(paper_size)[1]]} :
           paper_size \in {"A4", "A5", "Letter"}}

\* C38: the rasterizer converts mm to pixels one way throughout: the width
\* and height of the bitmap and the offset and size of every image it
\* composites are mm / 25.4 * dpi cut off at the decimal point, and
\* Page::to_pixels gives the page size render_layout_to_image gives, for every
\* page and dpi.
OnePixelPolicy ==
    bitmap # None =>
        LET dpi == bitmap[1].dpi
            img == bitmap[1].img
        IN  /\ IsTruncation(img.width_px, layout.page.width_mm, dpi)
            /\ IsTruncation(img.height_px, layout.page.height_mm, dpi)
            /\ \A i \in 1..Len(img.overlays) :
                   LET o == img.overlays[i]
                       placed == get_image(layout, o.id)[1]
                   IN  /\ IsTruncation(o.x_px, placed.x_mm, dpi)
                       /\ IsTruncation(o.y_px, placed.y_mm, dpi)
                       /\ IsTruncation(o.w_px, placed.width_mm, dpi)
                       /\ IsTruncation(o.h_px, placed.height_mm, dpi)
            /\ \A page \in PagesOf(layout.page), any \in Dpis :
                   LET rendered == render_layout_to_image([layout EXCEPT !.page = page], any)
                   IN  to_pixels(page, any) = <<rendered.width_px, rendered.height_px>>

\* an A4 page with an image at (50, 50) mm was rendered at 300 DPI: the bitmap
\* is 2480 x 3507 px (297 mm are 3507.87 px) and the image lies at (590, 590)
\* (50 mm are 590.55 px)
OnePixelPolicy_witness ==
    /\ bitmap # None
    /\ bitmap[1].dpi = 300
    /\ bitmap[1].img.width_px = 2480
    /\ bitmap[1].img.height_px = 3507
    /\ bitmap[1].img.overlays # <<>>
    /\ bitmap[1].img.overlays[1].x_px = 590
    /\ bitmap[1].img.overlays[1].y_px = 590
    /\ to_pixels(layout.page, 300) = <<2480, 3507>>

\* the paths of a list, each at its first place only
RECURSIVE FirstPlaces(_)
FirstPlaces(list) ==
    IF list = <<>> THEN <<>>
    ELSE LET Other(p) == p # list[1]
         IN  <<list[1]>> \o FirstPlaces(SelectSeq(Tail(list), Other))

RECURSIVE Reversed(_)
Reversed(list) ==
    IF list = <<>> THEN <<>> ELSE Append(Reversed(Tail(list)), list[1])

\* C39: after any sequence of add_recent_file calls the recent-files list
\* holds no path twice and at most 10 entries, the path added last is at
\* index 0, and the entries are in most-recent-first order: the paths added,
\* latest first, followed by the entries of the list the calls started from,
\* cut off after the tenth.
RecentFilesAreOrdered ==
    call.op = "add_recent_file" =>
        LET by_recency == FirstPlaces(Reversed(call.added) \o call.stored)
        IN  /\ \A i, j \in 1..Len(recent_files) :
                   recent_files[i] = recent_files[j] => i = j
            /\ Len(recent_files) <= 10
            /\ call.added # <<>> => recent_files[1] = call.added[Len(call.added)]
            /\ recent_files =
                   SubSeq(by_recency, 1, IF Len(by_recency) < 10 THEN Len(by_recency) ELSE 10)

\* a list of ten files got a new path, which pushed the oldest out, then its
\* fifth file again, which moved to the front, and the list still holds ten
RecentFilesAreOrdered_witness ==
    /\ call.op = "add_recent_file"
    /\ call.stored = TenFiles
    /\ call.added = <<"g1.pxl", "f5.pxl">>
    /\ recent_files = <<"f5.pxl", "g1.pxl", "f1.pxl", "f2.pxl", "f3.pxl", "f4.pxl",
                        "f6.pxl", "f7.pxl", "f8.pxl", "f9.pxl">>

\* the images of the Layout that PlacedImage::new created in this session:
\* their ids are among those handed out so far
SessionImages == {i \in 1..Len(layout.images) : layout.images[i].id <= next_uuid}

\* C40: every image created in the session with PlacedImage::new and changed
\* only through session messages has a rotation_degrees of 0, 90, 180 or 270.
SessionRotationIsQuarterTurn ==
    \A i \in SessionImages :
        layout.images[i].rotation_degrees \in {R(0), R(90), R(180), R(270)}

\* an image added in the session was turned counter-clockwise twice, through
\* 270 degrees to 180
SessionRotationIsQuarterTurn_witness ==
    /\ LastOps(<<"RotateImageCCW", "RotateImageCCW">>)
    /\ selected_image(Before(1)) # None
    /\ selected_image(Before(1))[1].id <= next_uuid
    /\ selected_image(Before(1))[1].rotation_degrees = R(270)
    /\ selected_image(layout) # None
    /\ selected_image(layout)[1].id <= next_uuid
    /\ selected_image(layout)[1].rotation_degrees = R(180)
====
